---- MODULE Spec2Model ----
(***************************************************************************)
(* Grid-based Bayesian estimator of a negotiation counterpart's hidden     *)
(* parameters (theta, w), as implemented by the three engine scripts:      *)
(*   "bayes4"   four issues, max-anchored emotion, linear posterior        *)
(*   "bayes4em" four issues, same engine, true emotion via EmotionModel    *)
(*   "bayes3"   three issues, fixed-scale emotion, log posterior           *)
(*                                                                         *)
(* Numbers.  Probabilities and likelihoods are exact rationals <<n, d>>.   *)
(* A log-domain value is represented by the rational it is the logarithm   *)
(* of (so -Infinity is log of 0) or by "NaN".  Utilities are fixed-point   *)
(* integers in units of 1/TRIG_SCALE; cos and sin are tabulated to that    *)
(* precision.  Angles in radians are kept as multiples of pi/180.          *)
(* The hypothesis grids and Q are scaled down from the shipped CONFIG so   *)
(* that the whole grid can be enumerated; the code is the same for any     *)
(* CONFIG.                                                                 *)
(***************************************************************************)
EXTENDS Integers, Sequences, FiniteSets, TLC

\* ---------------------------------------------------------------------------
\* Bounds of the model
\* ---------------------------------------------------------------------------

\* applyOffer calls allowed in one episode
MaxRounds == 2

\* 1/EPSILON of the likelihood (the scripts ship 1e-9, i.e. 10^9)
EPS_INV == 4

\* ---------------------------------------------------------------------------
\* Exact rational arithmetic
\* ---------------------------------------------------------------------------

Abs(x) == IF x < 0 THEN -x ELSE x

RECURSIVE GCD(_, _)
GCD(a, b) == IF b = 0 THEN a ELSE GCD(b, a % b)

\* the rational n/d in lowest terms with a positive denominator
Rat(n, d) ==
    LET g == GCD(Abs(n), Abs(d))
        s == IF d < 0 THEN -1 ELSE 1
    IN  <<s * (n \div g), s * (d \div g)>>

RatMul(a, b) ==
    LET g1 == GCD(Abs(a[1]), b[2])
        g2 == GCD(Abs(b[1]), a[2])
    IN  IF a[1] = 0 \/ b[1] = 0 THEN <<0, 1>>
        ELSE <<(a[1] \div g1) * (b[1] \div g2), (a[2] \div g2) * (b[2] \div g1)>>

\* a / b for b > 0
RatDiv(a, b) == RatMul(a, <<b[2], b[1]>>)

RatAdd(a, b) ==
    LET g == GCD(a[2], b[2])
        l == (a[2] \div g) * b[2]
    IN  Rat(a[1] * (l \div a[2]) + b[1] * (l \div b[2]), l)

RatLess(a, b) ==
    LET g == GCD(a[2], b[2])
    IN  a[1] * (b[2] \div g) < b[1] * (a[2] \div g)

\* the sum of s[lo..hi]
RECURSIVE RatSumRange(_, _, _)
RatSumRange(s, lo, hi) ==
    IF lo > hi THEN <<0, 1>>
    ELSE IF lo = hi THEN s[lo]
    ELSE LET mid == (lo + hi) \div 2
         IN  RatAdd(RatSumRange(s, lo, mid), RatSumRange(s, mid + 1, hi))

RatSum(s) == RatSumRange(s, 1, Len(s))

\* ---------------------------------------------------------------------------
\* Array helpers
\* ---------------------------------------------------------------------------

\* s[1] + ... + s[n]
RECURSIVE SumTo(_, _)
SumTo(s, n) == IF n = 0 THEN 0 ELSE SumTo(s, n - 1) + s[n]

SumSeq(s) == SumTo(s, Len(s))

RECURSIVE Flatten(_)
Flatten(rows) == IF rows = <<>> THEN <<>> ELSE Head(rows) \o Flatten(Tail(rows))

SetMax(S) == CHOOSE m \in S : \A y \in S : y <= m

\* a[1] * b[1] + ... + a[n] * b[n]
RECURSIVE DotTo(_, _, _)
DotTo(a, b, n) == IF n = 0 THEN 0 ELSE DotTo(a, b, n - 1) + a[n] * b[n]

dot(a, b) == DotTo(a, b, Len(a))

subtractArrays(a, b) == [i \in DOMAIN a |-> a[i] - b[i]]

sum(arr) == SumSeq(arr)

\* ---------------------------------------------------------------------------
\* Configuration
\* ---------------------------------------------------------------------------

VARIANTS == {"bayes4", "bayes4em", "bayes3"}

\* the CONFIG object of a script (W_SELF is the mutable field, kept in the
\* variable CONFIG_W_SELF); the grids and Q are scaled down
CONFIG(variant) ==
    [ Q                   |-> IF variant = "bayes3" THEN <<2, 1, 1>> ELSE <<2, 1, 1, 1>>,
      W_SELF              |-> IF variant = "bayes3" THEN <<4, 0, -4>> ELSE <<2, -1, 0, 1>>,
      W_GRID_MIN          |-> -4,
      W_GRID_MAX          |-> 4,
      W_GRID_STEP         |-> 8,
      THETA_GRID_MIN      |-> -90,
      THETA_GRID_MAX      |-> 90,
      THETA_GRID_STEP     |-> IF variant = "bayes3" THEN 45 ELSE 90,
      EMOTION_RANGE_MAX   |-> 7,
      NEUTRAL_EPSILON     |-> 0,
      EPSILON             |-> <<1, EPS_INV>>,
      NUM_EMOTION_CLASSES |-> 9,
      LIKELIHOOD_MATCH    |-> Rat(EPS_INV - 1, EPS_INV),
      LIKELIHOOD_MISMATCH |-> Rat(1, EPS_INV * 8) ]

\* the catalogue the hidden counterpart is drawn from
ALL_PATTERNS(variant) ==
    IF variant = "bayes3"
    THEN << [name |-> "basic1 x 0",   theta |-> 0,  w |-> <<4, -4, 0>>],
            [name |-> "basic2 x 45",  theta |-> 45, w |-> <<-4, 4, -4>>],
            [name |-> "all like x 90", theta |-> 90, w |-> <<4, 4, 4>>] >>
    ELSE << [name |-> "contrast x 0",  theta |-> 0,   w |-> <<2, -2, 1, -1>>],
            [name |-> "uniform x -45", theta |-> -45, w |-> <<1, 1, 1, 1>>] >>

\* ---------------------------------------------------------------------------
\* Angles and trigonometry
\* ---------------------------------------------------------------------------

\* fixed-point unit of utilities, cos and sin
TRIG_SCALE == 10000

\* radians are kept as multiples of pi/180
degToRad(deg) == [piOver180 |-> deg]

radToDeg(rad) == rad.piOver180

\* a cosine that changes sign with its argument
cosOdd(rad) ==
    LET a == Abs(rad.piOver180)
        c == CASE a = 0  -> 10000
               [] a = 15 -> 9659
               [] a = 30 -> 8660
               [] a = 45 -> 7071
               [] a = 60 -> 5000
               [] a = 75 -> 2588
               [] a = 90 -> 0
    IN  IF rad.piOver180 < 0 THEN -c ELSE c

\* Math.cos, in units of 1/TRIG_SCALE
cos(rad) ==
    LET a == Abs(rad.piOver180)
    IN  CASE a = 0  -> 10000
          [] a = 15 -> 9659
          [] a = 30 -> 8660
          [] a = 45 -> 7071
          [] a = 60 -> 5000
          [] a = 75 -> 2588
          [] a = 90 -> 0

\* Math.sin, in units of 1/TRIG_SCALE
sin(rad) ==
    LET d == rad.piOver180
        s == IF d < 0 THEN -1 ELSE 1
    IN  s * cos([piOver180 |-> 90 - Abs(d)])

\* ---------------------------------------------------------------------------
\* Grid generation
\* ---------------------------------------------------------------------------

\* whether `for (v = min; v <= max + tol; v += step)` terminates
LoopTerminates(min, max, step) == min > max \/ step > 0

\* the values that loop visits (integer min, max, step: the tolerance added to
\* max is below one unit); meaningful when the loop terminates
LoopValues(min, max, step) ==
    IF min > max \/ step <= 0 THEN <<>>
    ELSE [k \in 1..((max - min) \div step + 1) |-> min + (k - 1) * step]

\* the four nested loops with `<` for `<=`: the offers 0 <= x_i < Q_i
generateAllOffersExclusive(Q) ==
    IF \E i \in 1..4 : Q[i] <= 0 THEN <<>>
    ELSE LET nb == Q[2]
             nc == Q[3]
             nd == Q[4]
         IN  [k \in 1..(Q[1] * nb * nc * nd) |->
                 << (k - 1) \div (nb * nc * nd),
                    ((k - 1) \div (nc * nd)) % nb,
                    ((k - 1) \div nd) % nc,
                    (k - 1) % nd >>]

\* the four nested loops nested the other way round: the first issue varies
\* fastest
generateAllOffersFirstFastest(Q) ==
    IF \E i \in 1..4 : Q[i] < 0 THEN <<>>
    ELSE LET na == Q[1] + 1
             nb == Q[2] + 1
             nc == Q[3] + 1
         IN  [k \in 1..(na * nb * nc * (Q[4] + 1)) |->
                 << (k - 1) % na,
                    ((k - 1) \div na) % nb,
                    ((k - 1) \div (na * nb)) % nc,
                    (k - 1) \div (na * nb * nc) >>]

\* every offer 0 <= x_i <= Q_i, four nested loops
generateAllOffers(Q) ==
    IF \E i \in 1..4 : Q[i] < 0 THEN <<>>
    ELSE LET nb == Q[2] + 1
             nc == Q[3] + 1
             nd == Q[4] + 1
         IN  [k \in 1..((Q[1] + 1) * nb * nc * nd) |->
                 << (k - 1) \div (nb * nc * nd),
                    ((k - 1) \div (nc * nd)) % nb,
                    ((k - 1) \div nd) % nc,
                    (k - 1) % nd >>]

\* the w grid, four nested loops over the component values
generateWGrid(min, max, step) ==
    LET values == LoopValues(min, max, step)
        n == Len(values)
    IN  [k \in 1..(n * n * n * n) |->
            << values[((k - 1) \div (n * n * n)) + 1],
               values[(((k - 1) \div (n * n)) % n) + 1],
               values[(((k - 1) \div n) % n) + 1],
               values[((k - 1) % n) + 1] >>]

\* the theta grid, in radians
generateThetaGrid(min, max, step) ==
    LET ts == LoopValues(min, max, step)
    IN  [k \in DOMAIN ts |-> degToRad(ts[k])]

\* range(start, end, step) of the three-issue script
range(start, end, step) == LoopValues(start, end, step)

\* ---------------------------------------------------------------------------
\* Four-issue engine: ParameterSpace (linear posterior)
\* ---------------------------------------------------------------------------

\* normalize2D with the division left out
normalize2DNoDivide(arr2d) == arr2d

\* normalize2D without the test of the total: always the division
normalize2DNoFallback(arr2d) ==
    LET total == RatSum(Flatten(arr2d))
    IN  [i \in DOMAIN arr2d |-> [j \in DOMAIN arr2d[i] |-> RatDiv(arr2d[i][j], total)]]

\* normalize2D: divide every entry by the total, uniform if the total is <= 0
normalize2D(arr2d) ==
    LET flat == Flatten(arr2d)
        total == RatSum(flat)
    IN  IF ~RatLess(<<0, 1>>, total)
        THEN [i \in DOMAIN arr2d |-> [j \in DOMAIN arr2d[i] |-> Rat(1, Len(flat))]]
        ELSE [i \in DOMAIN arr2d |-> [j \in DOMAIN arr2d[i] |-> RatDiv(arr2d[i][j], total)]]

\* normalize: the same for a one-dimensional array
normalize(arr) ==
    LET total == RatSum(arr)
    IN  IF ~RatLess(<<0, 1>>, total)
        THEN [i \in DOMAIN arr |-> Rat(1, Len(arr))]
        ELSE [i \in DOMAIN arr |-> RatDiv(arr[i], total)]

\* new ParameterSpace(thetaValues, wGrid): uniform prior 1 / (Nt * Nw)
NewParameterSpace(thetaValues, wGrid) ==
    LET Nt == Len(thetaValues)
        Nw == Len(wGrid)
    IN  [ thetaValues  |-> thetaValues,
          wGrid        |-> wGrid,
          Nt           |-> Nt,
          Nw           |-> Nw,
          distribution |-> [i \in 1..Nt |-> [j \in 1..Nw |-> Rat(1, Nt * Nw)]] ]

getMarginalTheta(ps) == [i \in 1..ps.Nt |-> RatSum(ps.distribution[i])]

getMarginalW(ps) ==
    [j \in 1..ps.Nw |-> RatSum([i \in 1..ps.Nt |-> ps.distribution[i][j]])]

\* ---------------------------------------------------------------------------
\* Four-issue engine: BayesianInferenceEngine (max-anchored emotion)
\* ---------------------------------------------------------------------------

\* u = cosT * wOther.(Q - x) + sinT * wSelf.x, in 1/TRIG_SCALE
UtilityCS(Q, wSelf, cosT, sinT, wOther, x) ==
    cosT * dot(wOther, subtractArrays(Q, x)) + sinT * dot(wSelf, x)

\* U = cos(theta) * wOther.(Q - x) + sin(theta) * wSelf.x
UtilityOf(Q, wSelf, theta, wOther, x) ==
    UtilityCS(Q, wSelf, cos(theta), sin(theta), wOther, x)

\* -Infinity of the utilities: below every utility the model can form
MinusInfinity == -(2 ^ 30)

\* the running maximum with the loop starting at the second candidate
RECURSIVE MaxUtilityToSkipFirst(_, _, _, _, _, _, _)
MaxUtilityToSkipFirst(Q, wSelf, candX, cosT, sinT, wOther, n) ==
    IF n <= 1 THEN MinusInfinity
    ELSE LET maxU == MaxUtilityToSkipFirst(Q, wSelf, candX, cosT, sinT, wOther, n - 1)
             u == UtilityCS(Q, wSelf, cosT, sinT, wOther, candX[n])
         IN  IF u > maxU THEN u ELSE maxU

\* the running maximum `if (u > maxU) maxU = u` over candX[1..n]
RECURSIVE MaxUtilityTo(_, _, _, _, _, _, _)
MaxUtilityTo(Q, wSelf, candX, cosT, sinT, wOther, n) ==
    IF n = 0 THEN MinusInfinity
    ELSE LET maxU == MaxUtilityTo(Q, wSelf, candX, cosT, sinT, wOther, n - 1)
             u == UtilityCS(Q, wSelf, cosT, sinT, wOther, candX[n])
         IN  IF u > maxU THEN u ELSE maxU

\* the largest utility over the candidate offers
MaxUtilityOver(Q, wSelf, candX, theta, wOther) ==
    MaxUtilityTo(Q, wSelf, candX, cos(theta), sin(theta), wOther, Len(candX))

\* _precomputeUMAX: UMAX[ti][wi] = max over candX of the utility
precomputeUMAX(ps, Q, wSelf, candX) ==
    [ti \in 1..ps.Nt |->
        LET cosT == cos(ps.thetaValues[ti])
            sinT == sin(ps.thetaValues[ti])
        IN  [wi \in 1..ps.Nw |->
                MaxUtilityTo(Q, wSelf, candX, cosT, sinT, ps.wGrid[wi], Len(candX))]]

\* new BayesianInferenceEngine(paramSpace, Q, wSelf, candX)
NewEngine(ps, Q, wSelf, candX) ==
    [ Q     |-> Q,
      wSelf |-> wSelf,
      candX |-> candX,
      UMAX  |-> precomputeUMAX(ps, Q, wSelf, candX) ]

\* Math.ceil of a fixed-point value, as a whole number
CeilUnits(v) == -((-v) \div TRIG_SCALE)

Min(a, b) == IF a < b THEN a ELSE b

Max(a, b) == IF a > b THEN a ELSE b

\* a ladder whose top class is JOY6
utilityToEmotionCapSix(variant, utility, maxUtility) ==
    LET limit == maxUtility - CONFIG(variant).EMOTION_RANGE_MAX * TRIG_SCALE
        delta == utility - limit
        eps == TRIG_SCALE \div 1000
    IN  IF delta < -eps THEN -1
        ELSE IF Abs(delta) <= eps THEN 0
        ELSE Min(6, CeilUnits(delta))

\* _utilityToEmotion without the branch that maps everything below the limit
\* to -1
utilityToEmotionNoAnger(variant, utility, maxUtility) ==
    LET limit == maxUtility - CONFIG(variant).EMOTION_RANGE_MAX * TRIG_SCALE
        delta == utility - limit
        eps == TRIG_SCALE \div 1000
    IN  IF Abs(delta) <= eps THEN 0
        ELSE Min(7, CeilUnits(delta))

\* _utilityToEmotion: label from the distance to UMAX - EMOTION_RANGE_MAX,
\* eps = 1e-3
utilityToEmotion(variant, utility, maxUtility) ==
    LET limit == maxUtility - CONFIG(variant).EMOTION_RANGE_MAX * TRIG_SCALE
        delta == utility - limit
        eps == TRIG_SCALE \div 1000
    IN  IF delta < -eps THEN -1
        ELSE IF Abs(delta) <= eps THEN 0
        ELSE Min(7, CeilUnits(delta))

\* predictEmotion(thetaIndex, wIndex, x), reading the engine's UMAX
predictEmotion(variant, ps, engine, thetaIndex, wIndex, x) ==
    LET theta == ps.thetaValues[thetaIndex]
        wOther == ps.wGrid[wIndex]
        utility == UtilityOf(engine.Q, engine.wSelf, theta, wOther, x)
    IN  utilityToEmotion(variant, utility, engine.UMAX[thetaIndex][wIndex])

\* computeTrueEmotion(x, trueTheta, trueW): the maximum is recomputed
computeTrueEmotion(variant, engine, x, trueTheta, trueW) ==
    LET utility == UtilityOf(engine.Q, engine.wSelf, trueTheta, trueW, x)
        maxU == MaxUtilityOver(engine.Q, engine.wSelf, engine.candX, trueTheta, trueW)
    IN  utilityToEmotion(variant, utility, maxU)

\* the likelihood with the mismatch mass spread over all classes, not the
\* other ones: epsilon / numClasses
Likelihood4AllClasses(variant, predicted, observedEmotion) ==
    LET c == CONFIG(variant)
    IN  IF predicted = observedEmotion
        THEN Rat(c.EPSILON[2] - c.EPSILON[1], c.EPSILON[2])
        ELSE Rat(c.EPSILON[1], c.EPSILON[2] * c.NUM_EMOTION_CLASSES)

\* the likelihood of a hypothesis that predicts `predicted`
Likelihood4(variant, predicted, observedEmotion) ==
    LET c == CONFIG(variant)
    IN  IF variant = "bayes4"
        THEN IF predicted = observedEmotion THEN c.LIKELIHOOD_MATCH
                                              ELSE c.LIKELIHOOD_MISMATCH
        ELSE IF predicted = observedEmotion
             THEN Rat(c.EPSILON[2] - c.EPSILON[1], c.EPSILON[2])
             ELSE Rat(c.EPSILON[1], c.EPSILON[2] * (c.NUM_EMOTION_CLASSES - 1))

\* an update that overwrites the prior with the likelihood of the round
updateFromPredictionsForgetPrior(variant, ps, predicted, observedEmotion) ==
    LET posterior == [ti \in 1..ps.Nt |-> [wi \in 1..ps.Nw |->
            Likelihood4(variant, predicted[ti][wi], observedEmotion)]]
    IN  [ps EXCEPT !.distribution = normalize2D(posterior)]

\* the body of update(observedEmotion, xProposal) once every hypothesis has
\* its predicted emotion predicted[ti][wi]: prior times likelihood, normalised
updateFromPredictions(variant, ps, predicted, observedEmotion) ==
    LET prior == ps.distribution
        posterior == [ti \in 1..ps.Nt |-> [wi \in 1..ps.Nw |->
            RatMul(prior[ti][wi],
                   Likelihood4(variant, predicted[ti][wi], observedEmotion))]]
    IN  [ps EXCEPT !.distribution = normalize2D(posterior)]

\* update(observedEmotion, xProposal): prior times likelihood, normalised
engineUpdate(variant, ps, engine, observedEmotion, xProposal) ==
    updateFromPredictions(variant, ps,
        [ti \in 1..ps.Nt |-> [wi \in 1..ps.Nw |->
            predictEmotion(variant, ps, engine, ti, wi, xProposal)]],
        observedEmotion)

\* ---------------------------------------------------------------------------
\* Four-issue engine: EmotionModel ("bayes4em" samples the true emotion here)
\* ---------------------------------------------------------------------------

NewEmotionModel(q, wSelf, candX) == [q |-> q, wSelf |-> wSelf, candX |-> candX]

\* the second half of EmotionModel.utilityToEmotion, from uOther and maxU on
emotionLadder(variant, uOther, maxU) ==
    LET limit == maxU - CONFIG(variant).EMOTION_RANGE_MAX * TRIG_SCALE
        epsilon == CONFIG(variant).NEUTRAL_EPSILON * TRIG_SCALE
    IN  IF uOther < limit - epsilon THEN -1
        ELSE IF Abs(uOther - limit) <= epsilon THEN 0
        ELSE IF uOther <= limit + 1 * TRIG_SCALE THEN 1
        ELSE IF uOther <= limit + 2 * TRIG_SCALE THEN 2
        ELSE IF uOther <= limit + 3 * TRIG_SCALE THEN 3
        ELSE IF uOther <= limit + 4 * TRIG_SCALE THEN 4
        ELSE IF uOther <= limit + 5 * TRIG_SCALE THEN 5
        ELSE IF uOther <= limit + 6 * TRIG_SCALE THEN 6
        ELSE 7

\* EmotionModel.utilityToEmotion: ladder of unit steps above the limit,
\* neutral band NEUTRAL_EPSILON
emotionModelUtilityToEmotion(variant, em, xSelf, wOther, theta) ==
    LET uOther == UtilityOf(em.q, em.wSelf, theta, wOther, xSelf)
        maxU == MaxUtilityOver(em.q, em.wSelf, em.candX, theta, wOther)
    IN  emotionLadder(variant, uOther, maxU)

sampleEmotion(variant, em, x, trueTheta, trueW) ==
    emotionModelUtilityToEmotion(variant, em, x, trueW, trueTheta)

\* posterior means E[theta] (in units of pi/180) and E[w]
getPosteriorMean(ps) ==
    LET normDist == normalize2D(ps.distribution)
        thetaMarginal == [i \in 1..ps.Nt |-> RatSum(normDist[i])]
        wMarginal == [j \in 1..ps.Nw |-> RatSum([i \in 1..ps.Nt |-> normDist[i][j]])]
    IN  [ thetaMean |-> RatSum([i \in 1..ps.Nt |->
                            RatMul(<<ps.thetaValues[i].piOver180, 1>>, thetaMarginal[i])]),
          wMean     |-> [k \in 1..4 |-> RatSum([j \in 1..ps.Nw |->
                            RatMul(wMarginal[j], <<ps.wGrid[j][k], 1>>)])] ]

\* ---------------------------------------------------------------------------
\* Three-issue engine: ParameterSpace (log posterior keyed by theta|w)
\* ---------------------------------------------------------------------------

\* A log value is [kind |-> "num", logOf |-> r], the logarithm of the rational
\* r >= 0 (-Infinity is the logarithm of 0); the kinds "Infinity" and "NaN"
\* are the two other outcomes of the floating-point operations used.
Log(r) == [kind |-> "num", logOf |-> r]

Exp(v) == v.logOf

NEG_INFINITY == Log(<<0, 1>>)

POS_INFINITY == [kind |-> "Infinity", logOf |-> <<1, 0>>]

NaN == [kind |-> "NaN", logOf |-> <<0, 0>>]

IsNegInfinity(v) == v.kind = "num" /\ v.logOf[1] = 0

isFinite(v) == v.kind = "num" /\ v.logOf[1] # 0

\* a + b on log values
LogPlus(a, b) ==
    IF a.kind = "NaN" \/ b.kind = "NaN" THEN NaN
    ELSE IF a.kind = "Infinity" \/ b.kind = "Infinity"
         THEN IF IsNegInfinity(a) \/ IsNegInfinity(b) THEN NaN ELSE POS_INFINITY
    ELSE Log(RatMul(Exp(a), Exp(b)))

\* a - b on log values
LogMinus(a, b) ==
    IF a.kind = "NaN" \/ b.kind = "NaN" THEN NaN
    ELSE IF a.kind = "Infinity" THEN IF b.kind = "Infinity" THEN NaN ELSE POS_INFINITY
    ELSE IF b.kind = "Infinity" THEN NEG_INFINITY
    ELSE IF IsNegInfinity(b) THEN IF IsNegInfinity(a) THEN NaN ELSE POS_INFINITY
    ELSE Log(RatDiv(Exp(a), Exp(b)))

\* Math.max(...logArr)
LogMax(logArr) ==
    IF \E i \in DOMAIN logArr : logArr[i].kind = "NaN" THEN NaN
    ELSE IF \E i \in DOMAIN logArr : logArr[i].kind = "Infinity" THEN POS_INFINITY
    ELSE LET i == CHOOSE i \in DOMAIN logArr :
                      \A j \in DOMAIN logArr : ~RatLess(Exp(logArr[i]), Exp(logArr[j]))
         IN  logArr[i]

\* logsumexp without the sum: the largest entry alone
logsumexpMaxOnly(logArr) == LogMax(logArr)

\* logsumexp: maxLog + log(sum(exp(x - maxLog))), -Infinity if maxLog is not finite
logsumexp(logArr) ==
    LET maxLog == LogMax(logArr)
    IN  IF ~isFinite(maxLog) THEN NEG_INFINITY
        ELSE LogPlus(maxLog,
                     Log(RatSum([i \in DOMAIN logArr |-> Exp(LogMinus(logArr[i], maxLog))])))

\* _key(theta, w)
key(theta, w) == <<theta, w>>

\* _generateWCombinations: three nested loops
generateWCombinations(values) ==
    LET n == Len(values)
    IN  [k \in 1..(n * n * n) |->
            << values[((k - 1) \div (n * n)) + 1],
               values[(((k - 1) \div n) % n) + 1],
               values[((k - 1) % n) + 1] >>]

SeqRange(s) == {s[i] : i \in DOMAIN s}

\* the keys of the grid in the order the nested loops visit them
GridKeys(thetaValues, wCombinations) ==
    LET Nw == Len(wCombinations)
    IN  [i \in 1..(Len(thetaValues) * Nw) |->
            key(thetaValues[((i - 1) \div Nw) + 1], wCombinations[((i - 1) % Nw) + 1])]

\* _initUniformPrior: every key of the grid gets -log(total)
initUniformPrior(thetaValues, wCombinations) ==
    LET totalParams == Len(thetaValues) * Len(wCombinations)
    IN  [k \in SeqRange(GridKeys(thetaValues, wCombinations)) |-> Log(Rat(1, totalParams))]

\* new ParameterSpace() of the three-issue script
NewParameterSpace3(c) ==
    LET thetaValues == range(c.THETA_GRID_MIN, c.THETA_GRID_MAX, c.THETA_GRID_STEP)
        wComponentValues == range(c.W_GRID_MIN, c.W_GRID_MAX, c.W_GRID_STEP)
        wCombinations == generateWCombinations(wComponentValues)
    IN  [ thetaValues      |-> thetaValues,
          wComponentValues |-> wComponentValues,
          wCombinations    |-> wCombinations,
          logPosterior     |-> initUniformPrior(thetaValues, wCombinations) ]

\* Object.values(logPosterior): the entries in insertion order
LogValues(ps) ==
    LET keys == GridKeys(ps.thetaValues, ps.wCombinations)
    IN  [i \in DOMAIN keys |-> ps.logPosterior[keys[i]]]

\* _normalizeLogPosterior: subtract logsumexp of all entries
normalizeLogPosterior(ps) ==
    LET logZ == logsumexp(LogValues(ps))
    IN  [ps EXCEPT !.logPosterior = [k \in DOMAIN ps.logPosterior |->
                                        LogMinus(ps.logPosterior[k], logZ)]]

\* updateWithLogLikelihood: add the log-likelihood, then normalise
updateWithLogLikelihood(ps, logLikelihoodFunc) ==
    normalizeLogPosterior(
        [ps EXCEPT !.logPosterior = [k \in DOMAIN ps.logPosterior |->
            LogPlus(ps.logPosterior[k], logLikelihoodFunc[k])]])

\* ---------------------------------------------------------------------------
\* Three-issue engine: BayesianInferenceEngine (fixed-scale emotion)
\* ---------------------------------------------------------------------------

\* utility(offer, w) = offer . w
utility(offer, w) == dot(offer, w)

\* _computeScale without the final division: (max|w| + max|W_SELF|) * sum(Q)
maxUtilOf(c, W_SELF) ==
    LET wAbsMax == Max(c.W_GRID_MAX, Abs(c.W_GRID_MIN))
        selfAbsMax == SetMax({Abs(W_SELF[i]) : i \in DOMAIN W_SELF})
        qSum == sum(c.Q)
    IN  (wAbsMax + selfAbsMax) * qSum

\* computeTrueEmotion(offer, theta, wOther) of the three-issue script:
\* clip(floor((uSelf + cos(theta) * uOther) / scale), -1, EMOTION_RANGE_MAX),
\* scale = maxUtil / EMOTION_RANGE_MAX; reads CONFIG.W_SELF at the call
computeTrueEmotion3(c, W_SELF, offer, theta, wOther) ==
    LET uSelf == utility(offer, W_SELF)
        xOther == [i \in DOMAIN c.Q |-> c.Q[i] - offer[i]]
        uOther == utility(xOther, wOther)
        cosTheta == cos(degToRad(theta))
        combined == TRIG_SCALE * uSelf + cosTheta * uOther
        rawEmotion == (combined * c.EMOTION_RANGE_MAX) \div (TRIG_SCALE * maxUtilOf(c, W_SELF))
    IN  Max(-1, Min(c.EMOTION_RANGE_MAX, rawEmotion))

\* the value of the closure logLikelihoodFunc of update for a hypothesis that
\* predicts predictedEmotion
logLikelihoodFunc(c, predictedEmotion, observedEmotion) ==
    IF predictedEmotion = observedEmotion
    THEN Log(c.LIKELIHOOD_MATCH)
    ELSE Log(c.LIKELIHOOD_MISMATCH)

\* update(offer, observedEmotion) of the three-issue script
engineUpdate3(c, W_SELF, ps, offer, observedEmotion) ==
    updateWithLogLikelihood(ps,
        [k \in DOMAIN ps.logPosterior |->
            logLikelihoodFunc(c, computeTrueEmotion3(c, W_SELF, offer, k[1], k[2]),
                              observedEmotion)])

\* ---------------------------------------------------------------------------
\* NegotiationGame
\* ---------------------------------------------------------------------------

IsFour(variant) == variant \in {"bayes4", "bayes4em"}

\* reset(), first half: the pattern Math.random selects becomes the truth
selectPattern4(g, pattern) ==
    [g EXCEPT !.trueTheta    = degToRad(pattern.theta),
              !.trueThetaDeg = pattern.theta,
              !.trueW        = pattern.w,
              !.patternName  = pattern.name]

\* reset() that builds the engine only when the game has none yet
initEngine4StaleEngine(variant, g) ==
    LET ps == NewParameterSpace(g.thetaGrid, g.wGrid)
    IN  [g EXCEPT !.paramSpace   = ps,
                  !.emotionModel = IF variant = "bayes4em"
                                   THEN NewEmotionModel(g.Q, g.wSelf, g.candX) ELSE <<>>,
                  !.engine       = IF DOMAIN g.engine = {}
                                   THEN NewEngine(ps, g.Q, g.wSelf, g.candX) ELSE g.engine,
                  !.round        = 0,
                  !.history      = <<>>]

\* reset() that builds a new engine but keeps the old parameter space
initEngine4KeepPosterior(variant, g) ==
    [g EXCEPT !.emotionModel = IF variant = "bayes4em"
                               THEN NewEmotionModel(g.Q, g.wSelf, g.candX) ELSE <<>>,
              !.engine       = NewEngine(NewParameterSpace(g.thetaGrid, g.wGrid),
                                         g.Q, g.wSelf, g.candX),
              !.paramSpace   = IF g.round = 0
                               THEN NewParameterSpace(g.thetaGrid, g.wGrid) ELSE g.paramSpace,
              !.round        = 0,
              !.history      = <<>>]

\* reset(), second half: new parameter space and engine from the game's
\* current grids, Q, wSelf and candX; round and history cleared
initEngine4(variant, g) ==
    LET ps == NewParameterSpace(g.thetaGrid, g.wGrid)
    IN  [g EXCEPT !.paramSpace   = ps,
                  !.emotionModel = IF variant = "bayes4em"
                                   THEN NewEmotionModel(g.Q, g.wSelf, g.candX) ELSE <<>>,
                  !.engine       = NewEngine(ps, g.Q, g.wSelf, g.candX),
                  !.round        = 0,
                  !.history      = <<>>]

\* a constructor that takes the default weights from the literal of the
\* script, not from CONFIG.W_SELF as it is at the call
constructFields4ShippedWSelf(variant, W_SELF, customWSelf) ==
    LET c == CONFIG(variant)
    IN  [ Q            |-> c.Q,
          wSelf        |-> IF customWSelf # <<>> THEN customWSelf ELSE c.W_SELF,
          candX        |-> generateAllOffers(c.Q),
          wGrid        |-> generateWGrid(c.W_GRID_MIN, c.W_GRID_MAX, c.W_GRID_STEP),
          thetaGrid    |-> generateThetaGrid(c.THETA_GRID_MIN, c.THETA_GRID_MAX,
                                             c.THETA_GRID_STEP),
          trueTheta    |-> degToRad(0),
          trueThetaDeg |-> 0,
          trueW        |-> <<>>,
          patternName  |-> "",
          paramSpace   |-> <<>>,
          emotionModel |-> <<>>,
          engine       |-> <<>>,
          round        |-> 0,
          history      |-> <<>> ]

\* new NegotiationGame(customWSelf) up to its call of reset(); customWSelf is
\* <<>> for null
constructFields4(variant, W_SELF, customWSelf) ==
    LET c == CONFIG(variant)
    IN  [ Q            |-> c.Q,
          wSelf        |-> IF customWSelf # <<>> THEN customWSelf ELSE W_SELF,
          candX        |-> generateAllOffers(c.Q),
          wGrid        |-> generateWGrid(c.W_GRID_MIN, c.W_GRID_MAX, c.W_GRID_STEP),
          thetaGrid    |-> generateThetaGrid(c.THETA_GRID_MIN, c.THETA_GRID_MAX,
                                             c.THETA_GRID_STEP),
          trueTheta    |-> degToRad(0),
          trueThetaDeg |-> 0,
          trueW        |-> <<>>,
          patternName  |-> "",
          paramSpace   |-> <<>>,
          emotionModel |-> <<>>,
          engine       |-> <<>>,
          round        |-> 0,
          history      |-> <<>> ]

\* updateWSelf(newWSelf) without the assignment to this.wSelf
setWSelf4Dropped(g, newWSelf) == g

\* updateWSelf(newWSelf) up to its call of reset() (CONFIG.setWSelf is applied
\* to CONFIG_W_SELF by the action)
setWSelf4(g, newWSelf) == [g EXCEPT !.wSelf = newWSelf]

\* the true emotion applyOffer observes
trueEmotion4(variant, g, x) ==
    IF variant = "bayes4"
    THEN computeTrueEmotion(variant, g.engine, x, g.trueTheta, g.trueW)
    ELSE sampleEmotion(variant, g.emotionModel, x, g.trueTheta, g.trueW)

\* applyOffer(x) from the statement after `const emotion = ...` on: the
\* update with the emotion observed, the statistics, the history entry
applyOfferObserving4(variant, g, x, emotion) ==
    LET round == g.round + 1
        ps == engineUpdate(variant, g.paramSpace, g.engine, emotion, x)
        mean == getPosteriorMean(ps)
    IN  [g EXCEPT !.round      = round,
                  !.paramSpace = ps,
                  !.history    = Append(g.history,
                                    [ round         |-> round,
                                      offer         |-> x,
                                      emotion       |-> emotion,
                                      thetaEstimate |-> mean.thetaMean,
                                      wEstimate     |-> mean.wMean ])]

\* an applyOffer that also takes the offered items out of Q
applyOffer4ConsumingQ(variant, g, x) ==
    LET round == g.round + 1
        emotion == trueEmotion4(variant, g, x)
        ps == engineUpdate(variant, g.paramSpace, g.engine, emotion, x)
        mean == getPosteriorMean(ps)
    IN  [g EXCEPT !.round      = round,
                  !.paramSpace = ps,
                  !.Q          = [i \in DOMAIN g.Q |-> g.Q[i] - x[i]],
                  !.history    = Append(g.history,
                                    [ round         |-> round,
                                      offer         |-> x,
                                      emotion       |-> emotion,
                                      thetaEstimate |-> mean.thetaMean,
                                      wEstimate     |-> mean.wMean ])]

\* applyOffer(x) of the four-issue scripts: the game after the call
applyOffer4(variant, g, x) ==
    applyOfferObserving4(variant, g, x, trueEmotion4(variant, g, x))

\* _selectRandomPattern of the three-issue script
selectRandomPattern(g, pattern) ==
    [g EXCEPT !.trueTheta = pattern.theta, !.trueW = pattern.w, !.patternName = pattern.name]

\* new NegotiationGame() of the three-issue script
construct3(variant, pattern) ==
    selectRandomPattern(
        [ engine      |-> [paramSpace |-> NewParameterSpace3(CONFIG(variant))],
          round       |-> 0,
          history     |-> <<>>,
          trueTheta   |-> 0,
          trueW       |-> <<>>,
          patternName |-> "" ], pattern)

\* reset() of the three-issue script without the call of engine.reset()
reset3KeepPosterior(g, pattern) ==
    selectRandomPattern([g EXCEPT !.round = 0, !.history = <<>>], pattern)

\* a reset() of the three-issue script that leaves the round counter alone
reset3KeepRound(g, pattern) ==
    LET ps == g.engine.paramSpace
    IN  selectRandomPattern(
            [g EXCEPT !.engine.paramSpace.logPosterior =
                          initUniformPrior(ps.thetaValues, ps.wCombinations) @@ ps.logPosterior,
                      !.history = <<>>], pattern)

\* reset() of the three-issue script
reset3(g, pattern) ==
    LET ps == g.engine.paramSpace
    IN  selectRandomPattern(
            [g EXCEPT !.engine.paramSpace.logPosterior =
                          initUniformPrior(ps.thetaValues, ps.wCombinations) @@ ps.logPosterior,
                      !.round = 0,
                      !.history = <<>>], pattern)

\* applyOffer(offer) of the three-issue script: the game after the call
applyOffer3(variant, W_SELF, g, offer) ==
    LET c == CONFIG(variant)
        emotion == computeTrueEmotion3(c, W_SELF, offer, g.trueTheta, g.trueW)
        ps == engineUpdate3(c, W_SELF, g.engine.paramSpace, offer, emotion)
    IN  [g EXCEPT !.engine.paramSpace = ps,
                  !.round = g.round + 1,
                  !.history = Append(g.history, [offer |-> offer, emotion |-> emotion])]

\* ---------------------------------------------------------------------------
\* State
\* ---------------------------------------------------------------------------

VARIABLES
    variant,        \* which script is loaded
    CONFIG_W_SELF,  \* CONFIG.W_SELF, the global the UI mutates
    game,           \* the NegotiationGame object
    lastResult,     \* what the last call on game returned
    peer,           \* a second NegotiationGame of the same page (pair runs only)
    gridCall,       \* the last call of a grid generator (grid runs only)
    running         \* the handler on the call stack and the statement it has reached

vars == <<variant, CONFIG_W_SELF, game, lastResult, peer, gridCall, running>>

\* proposer weights the UI can submit
WSelfInputs(v) ==
    IF v = "bayes3" THEN {<<4, 0, -4>>, <<0, 0, 0>>}
    ELSE {<<2, -1, 0, 1>>, <<3, -1, 0, 0>>}

\* customWSelf arguments of the constructor (<<>> is null)
CustomWSelfInputs == {<<>>, <<3, -1, 0, 0>>}

\* offers submitted to applyOffer: in range, and out of range
OfferInputs(v) ==
    IF v = "bayes3"
    THEN {<<0, 0, 0>>, <<2, 0, 0>>, <<1, 1, 0>>, <<2, 1, 1>>, <<3, 0, 0>>, <<0, -1, 0>>}
    ELSE {<<0, 0, 0, 0>>, <<2, 0, 1, 0>>, <<0, 1, 0, 0>>, <<3, 0, 0, 0>>}

\* offers submitted when two games run side by side
PairOfferInputs(v) ==
    IF v = "bayes3" THEN {<<2, 0, 0>>, <<1, 1, 0>>}
    ELSE {<<2, 0, 1, 0>>, <<0, 1, 0, 0>>}

PatternsOf(v) == SeqRange(ALL_PATTERNS(v))

\* new NegotiationGame(customWSelf) with the pattern Math.random selects
construct(v, W_SELF, customWSelf, pattern) ==
    IF IsFour(v)
    THEN selectPattern4(initEngine4(v, constructFields4(v, W_SELF, customWSelf)), pattern)
    ELSE construct3(v, pattern)

\* g.reset() with the pattern Math.random selects
reset(v, g, pattern) ==
    IF IsFour(v) THEN selectPattern4(initEngine4(v, g), pattern)
    ELSE reset3(g, pattern)

\* g.applyOffer(x)
applyOffer(v, W_SELF, g, x) ==
    IF IsFour(v) THEN applyOffer4(v, g, x) ELSE applyOffer3(v, W_SELF, g, x)

\* what applyOffer returns (the fields the properties read)
applyOfferResult(g, x) ==
    [ op      |-> "applyOffer",
      offer   |-> x,
      thrown  |-> "none",
      emotion |-> g.history[Len(g.history)].emotion,
      round   |-> g.round ]

NoGame == [round |-> 0, history |-> <<>>]

NoCall == [fn |-> "none"]

\* no handler is running
Idle == [handler |-> "none", step |-> 0]

Init ==
    /\ variant \in VARIANTS
    /\ CONFIG_W_SELF = CONFIG(variant).W_SELF
    /\ \E p \in PatternsOf(variant) : game = construct(variant, CONFIG_W_SELF, <<>>, p)
    /\ lastResult = [op |-> "construct"]
    /\ peer = NoGame
    /\ gridCall = NoCall
    /\ running = Idle

\* game = new NegotiationGame(customWSelf)
Construct ==
    /\ \/ /\ IsFour(variant)
          /\ \E cw \in CustomWSelfInputs :
                LET built == initEngine4(variant,
                                         constructFields4(variant, CONFIG_W_SELF, cw))
                IN  \E p \in PatternsOf(variant) : game' = selectPattern4(built, p)
       \/ /\ ~IsFour(variant)
          /\ \E p \in PatternsOf(variant) : game' = construct3(variant, p)
    /\ lastResult' = [op |-> "construct"]
    /\ UNCHANGED <<variant, CONFIG_W_SELF, peer, gridCall, running>>

\* game.reset()
Reset ==
    /\ \/ /\ IsFour(variant)
          /\ LET rebuilt == initEngine4(variant, game)
             IN  \E p \in PatternsOf(variant) : game' = selectPattern4(rebuilt, p)
       \/ /\ ~IsFour(variant)
          /\ \E p \in PatternsOf(variant) : game' = reset3(game, p)
    /\ lastResult' = [op |-> "reset"]
    /\ UNCHANGED <<variant, CONFIG_W_SELF, peer, gridCall, running>>

\* game.updateWSelf(newWSelf)
UpdateWSelf ==
    /\ \E w \in WSelfInputs(variant) :
          /\ CONFIG_W_SELF' = w
          /\ \/ /\ IsFour(variant)
                /\ LET rebuilt == initEngine4(variant, setWSelf4(game, w))
                   IN  \E p \in PatternsOf(variant) : game' = selectPattern4(rebuilt, p)
             \/ /\ ~IsFour(variant)
                /\ \E p \in PatternsOf(variant) : game' = reset3(game, p)
          /\ lastResult' = [op |-> "updateWSelf", newWSelf |-> w]
    /\ UNCHANGED <<variant, peer, gridCall, running>>

\* game.applyOffer(x) for an x of the set offers
ApplyOfferFrom(offers) ==
    /\ game.round < MaxRounds
    /\ \E x \in offers :
          /\ game' = applyOffer(variant, CONFIG_W_SELF, game, x)
          /\ lastResult' = applyOfferResult(game', x)
    /\ UNCHANGED <<variant, CONFIG_W_SELF, peer, gridCall, running>>

ApplyOffer == ApplyOfferFrom(OfferInputs(variant))

Next == Construct \/ Reset \/ UpdateWSelf \/ ApplyOffer

Spec == Init /\ [][Next]_vars

\* ---------------------------------------------------------------------------
\* Two games side by side
\* ---------------------------------------------------------------------------

\* two games constructed independently with the same customWSelf; each draws
\* its own pattern
InitPair ==
    /\ variant \in {"bayes4", "bayes3"}
    /\ CONFIG_W_SELF = CONFIG(variant).W_SELF
    /\ \E cw \in (IF IsFour(variant) THEN CustomWSelfInputs ELSE {<<>>}) :
          /\ \E p \in PatternsOf(variant) : game = construct(variant, CONFIG_W_SELF, cw, p)
          /\ \E p \in PatternsOf(variant) : peer = construct(variant, CONFIG_W_SELF, cw, p)
    /\ lastResult = [op |-> "construct"]
    /\ gridCall = NoCall
    /\ running = Idle

PairApplyOffer == ApplyOfferFrom(PairOfferInputs(variant))

\* peer.reset()
PeerReset ==
    /\ \/ /\ IsFour(variant)
          /\ LET rebuilt == initEngine4(variant, peer)
             IN  \E p \in PatternsOf(variant) : peer' = selectPattern4(rebuilt, p)
       \/ /\ ~IsFour(variant)
          /\ \E p \in PatternsOf(variant) : peer' = reset3(peer, p)
    /\ UNCHANGED <<variant, CONFIG_W_SELF, game, lastResult, gridCall, running>>

\* peer.applyOffer(x)
PeerApplyOffer ==
    /\ peer.round < MaxRounds
    /\ \E x \in PairOfferInputs(variant) :
          peer' = applyOffer(variant, CONFIG_W_SELF, peer, x)
    /\ UNCHANGED <<variant, CONFIG_W_SELF, game, lastResult, gridCall, running>>

NextPair == Reset \/ PairApplyOffer \/ PeerReset \/ PeerApplyOffer

SpecPair == InitPair /\ [][NextPair]_vars

\* ---------------------------------------------------------------------------
\* The grid generators on arbitrary arguments
\* ---------------------------------------------------------------------------

\* min and max range over -GridSpan..GridSpan
GridSpan == 2

\* step ranges over -1..StepMax
StepMax == 3

\* what a call of a grid generator does: it returns its array, or its loop
\* never ends; none of the generators has a throw statement
gridOutcome(fn, min, max, step, value) ==
    [ fn      |-> fn,
      min     |-> min,
      max     |-> max,
      step    |-> step,
      outcome |-> IF LoopTerminates(min, max, step) THEN "returned" ELSE "diverged",
      thrown  |-> "none",
      value   |-> IF LoopTerminates(min, max, step) THEN value ELSE <<>> ]

InitGrid ==
    /\ variant \in VARIANTS
    /\ CONFIG_W_SELF = CONFIG(variant).W_SELF
    /\ game = NoGame
    /\ peer = NoGame
    /\ lastResult = [op |-> "none"]
    /\ gridCall = NoCall
    /\ running = Idle

\* generateThetaGrid(min, max, step)
CallGenerateThetaGrid ==
    /\ IsFour(variant)
    /\ \E min \in -GridSpan..GridSpan, max \in -GridSpan..GridSpan, step \in -1..StepMax :
          gridCall' = gridOutcome("generateThetaGrid", min, max, step,
                                  generateThetaGrid(min, max, step))
    /\ UNCHANGED <<variant, CONFIG_W_SELF, game, lastResult, peer, running>>

\* generateWGrid(min, max, step)
CallGenerateWGrid ==
    /\ IsFour(variant)
    /\ \E min \in -GridSpan..GridSpan, max \in -GridSpan..GridSpan, step \in -1..StepMax :
          gridCall' = gridOutcome("generateWGrid", min, max, step,
                                  generateWGrid(min, max, step))
    /\ UNCHANGED <<variant, CONFIG_W_SELF, game, lastResult, peer, running>>

\* range(start, end, step)
CallRange ==
    /\ ~IsFour(variant)
    /\ \E min \in -GridSpan..GridSpan, max \in -GridSpan..GridSpan, step \in -1..StepMax :
          gridCall' = gridOutcome("range", min, max, step, range(min, max, step))
    /\ UNCHANGED <<variant, CONFIG_W_SELF, game, lastResult, peer, running>>

NextGrid == CallGenerateThetaGrid \/ CallGenerateWGrid \/ CallRange

SpecGrid == InitGrid /\ [][NextGrid]_vars

\* ---------------------------------------------------------------------------
\* Properties: vocabulary
\* ---------------------------------------------------------------------------

\* the hypotheses of a game's grid: <<ti, wi>> for the four-issue scripts,
\* <<theta, w>> (the key) for the three-issue script
Hypotheses(v, g) ==
    IF IsFour(v) THEN (1..g.paramSpace.Nt) \X (1..g.paramSpace.Nw)
    ELSE DOMAIN g.engine.paramSpace.logPosterior

\* the probability mass the game's store holds for hypothesis h
Mass(v, g, h) ==
    IF IsFour(v) THEN g.paramSpace.distribution[h[1]][h[2]]
    ELSE Exp(g.engine.paramSpace.logPosterior[h])

\* every entry of the store is a number (not NaN, not +Infinity)
StoreIsNumeric(v, g) ==
    IsFour(v) \/ \A h \in Hypotheses(v, g) : g.engine.paramSpace.logPosterior[h].kind = "num"

\* the total mass of the store
PosteriorMass(v, g) ==
    IF IsFour(v) THEN RatSum(Flatten(g.paramSpace.distribution))
    ELSE LET vals == LogValues(g.engine.paramSpace)
         IN  RatSum([i \in DOMAIN vals |-> Exp(vals[i])])

\* every hypothesis holds 1 / (Nt * Nw)
IsUniform(v, g) ==
    LET hs == Hypotheses(v, g)
    IN  /\ StoreIsNumeric(v, g)
        /\ \A h \in hs : Mass(v, g, h) = Rat(1, Cardinality(hs))

\* the emotion the engine predicts for offer x under hypothesis h
Predicted(v, W_SELF, g, h, x) ==
    IF IsFour(v) THEN predictEmotion(v, g.paramSpace, g.engine, h[1], h[2], x)
    ELSE computeTrueEmotion3(CONFIG(v), W_SELF, x, h[1], h[2])

\* the offers with 0 <= x_i <= Q_i
ValidOffers(v) ==
    LET Q == CONFIG(v).Q
    IN  IF Len(Q) = 3 THEN (0..Q[1]) \X (0..Q[2]) \X (0..Q[3])
        ELSE (0..Q[1]) \X (0..Q[2]) \X (0..Q[3]) \X (0..Q[4])

EmotionLabels == -1..7

\* ---------------------------------------------------------------------------
\* C1
\* ---------------------------------------------------------------------------

\* C1: in every state reached by applyOffer calls from a construction or a
\* reset, the joint posterior over the grid sums to 1, in the linear store
\* (normalize2D) and in the log store (logsumexp normalisation).
C1_PosteriorSumsToOne ==
    /\ StoreIsNumeric(variant, game)
    /\ PosteriorMass(variant, game) = <<1, 1>>

\* two updates have run on the log store and moved mass between hypotheses
C1_Witness ==
    /\ variant = "bayes3"
    /\ game.round = 2
    /\ lastResult.op = "applyOffer"
    /\ ~IsUniform(variant, game)
    /\ PosteriorMass(variant, game) = <<1, 1>>

\* ---------------------------------------------------------------------------
\* C2
\* ---------------------------------------------------------------------------

RatSub(a, b) == RatAdd(a, <<-b[1], b[2]>>)

\* MATCH of the script
MatchLikelihood(v) ==
    IF v = "bayes4em" THEN RatSub(<<1, 1>>, CONFIG(v).EPSILON) ELSE CONFIG(v).LIKELIHOOD_MATCH

\* the likelihood the update is to apply: MATCH when the prediction equals the
\* observation, (1 - MATCH) / (numEmotionClasses - 1) otherwise
ExpectedLikelihood(v, predicted, observed) ==
    IF predicted = observed THEN MatchLikelihood(v)
    ELSE RatDiv(RatSub(<<1, 1>>, MatchLikelihood(v)), <<Cardinality(EmotionLabels) - 1, 1>>)

\* a step of applyOffer: for any two hypotheses a and b,
\* posterior(a) / posterior(b) = (prior(a) * L(a)) / (prior(b) * L(b))
C2_UpdateStep ==
    game'.round = game.round + 1 =>
        LET x == lastResult'.offer
            observed == lastResult'.emotion
            scored == { [ prior     |-> Mass(variant, game, h),
                          L         |-> ExpectedLikelihood(variant,
                                            Predicted(variant, CONFIG_W_SELF, game, h, x),
                                            observed),
                          posterior |-> Mass(variant, game', h) ] :
                        h \in Hypotheses(variant, game) }
        IN  \A a \in scored, b \in scored :
                /\ b.posterior[1] > 0
                /\ RatDiv(a.posterior, b.posterior) =
                       RatDiv(RatMul(a.prior, a.L), RatMul(b.prior, b.L))

\* C2: one update multiplies the prior mass of every hypothesis that predicted
\* the observed emotion by MATCH and of every other hypothesis by
\* MISMATCH = (1 - MATCH) / (numEmotionClasses - 1) before renormalising: for
\* any two hypotheses the posterior ratio is the prior ratio times the ratio of
\* their likelihoods, so hypotheses with the same prediction keep their ratio.
C2_UpdateMultipliesByLikelihood == [][C2_UpdateStep]_vars

\* a second update of the linear store has run on a prior that was not
\* uniform, with hypotheses on both sides of the observation
C2_Witness ==
    /\ variant = "bayes4"
    /\ game.round = 2
    /\ lastResult.op = "applyOffer"
    /\ \E h \in Hypotheses(variant, game) :
          Predicted(variant, CONFIG_W_SELF, game, h, lastResult.offer) = lastResult.emotion
    /\ \E h \in Hypotheses(variant, game) :
          Predicted(variant, CONFIG_W_SELF, game, h, lastResult.offer) # lastResult.emotion
    /\ \E h \in Hypotheses(variant, game) :
          game.history[1].emotion #
              Predicted(variant, CONFIG_W_SELF, game, h, game.history[1].offer)

\* ---------------------------------------------------------------------------
\* C3
\* ---------------------------------------------------------------------------

\* the emotion applyOffer would observe for offer x with the true parameters
TrueEmotion(v, W_SELF, g, x) ==
    IF IsFour(v) THEN trueEmotion4(v, g, x)
    ELSE computeTrueEmotion3(CONFIG(v), W_SELF, x, g.trueTheta, g.trueW)

\* C3: for every offer with 0 <= x_i <= Q_i and every hypothesis of the grid
\* the predicted emotion is an integer of -1..7, under the max-anchored scheme
\* and under the fixed-scale scheme; so is the emotion computed with the true
\* parameters (computeTrueEmotion, EmotionModel.sampleEmotion).
C3_EmotionLabelsInRange ==
    \A x \in ValidOffers(variant) :
        /\ \A h \in Hypotheses(variant, game) :
              Predicted(variant, CONFIG_W_SELF, game, h, x) \in EmotionLabels
        /\ TrueEmotion(variant, CONFIG_W_SELF, game, x) \in EmotionLabels

\* an in-range offer was applied, and for it the grid predicts both ends of
\* the scale
C3_Witness ==
    /\ lastResult.op = "applyOffer"
    /\ lastResult.offer \in ValidOffers(variant)
    /\ lastResult.emotion \in EmotionLabels
    /\ \E h \in Hypotheses(variant, game) :
          Predicted(variant, CONFIG_W_SELF, game, h, lastResult.offer) = -1
    /\ \E h \in Hypotheses(variant, game) :
          Predicted(variant, CONFIG_W_SELF, game, h, lastResult.offer) = 7

\* ---------------------------------------------------------------------------
\* C4
\* ---------------------------------------------------------------------------

\* C4 as claimed: applyOffer fails with InvalidOffer when some offer_i < 0 or
\* offer_i > Q_i, and the failed call leaves round, history and posterior as
\* they were.  Neither applyOffer has a check or a throw statement: the call
\* returns an emotion, and the round, the history and the posterior move.
C4_InvalidOfferRejected ==
    (lastResult.op = "applyOffer" /\ lastResult.offer \notin ValidOffers(variant)) =>
        /\ lastResult.thrown = "InvalidOffer"
        /\ \A i \in DOMAIN game.history : game.history[i].offer \in ValidOffers(variant)

\* ---------------------------------------------------------------------------
\* C5
\* ---------------------------------------------------------------------------

\* C5: at construction and right after every reset(), whatever came before,
\* the posterior is uniform (1 / (Nt * Nw) everywhere), round is 0 and the
\* history is empty.
C5_FreshAfterConstructAndReset ==
    lastResult.op \in {"construct", "reset"} =>
        /\ IsUniform(variant, game)
        /\ game.round = 0
        /\ game.history = <<>>

\* a reset that followed a change of the proposer weights
C5_Witness ==
    /\ lastResult.op = "reset"
    /\ CONFIG_W_SELF # CONFIG(variant).W_SELF
    /\ IsUniform(variant, game)
    /\ game.round = 0

\* ---------------------------------------------------------------------------
\* C6
\* ---------------------------------------------------------------------------

\* getWSelf(): the proposer weights the game works with
CurrentWSelf(v, W_SELF, g) == IF IsFour(v) THEN g.wSelf ELSE W_SELF

\* the largest utility of hypothesis (theta, wOther) over the offers of Q when
\* the proposer weights are w, computed afresh
FreshMaxUtility(v, w, theta, wOther) ==
    SetMax({UtilityOf(CONFIG(v).Q, w, theta, wOther, y) : y \in ValidOffers(v)})

\* the prediction for offer x under hypothesis h when the proposer weights are
\* w, computed afresh (no cache)
PredictedWith(v, w, g, h, x) ==
    IF IsFour(v)
    THEN LET theta == g.thetaGrid[h[1]]
             wOther == g.wGrid[h[2]]
         IN  utilityToEmotion(v, UtilityOf(CONFIG(v).Q, w, theta, wOther, x),
                              FreshMaxUtility(v, w, theta, wOther))
    ELSE computeTrueEmotion3(CONFIG(v), w, x, h[1], h[2])

\* the true emotion for offer x when the proposer weights are w, computed
\* afresh
TrueEmotionWith(v, w, g, x) ==
    LET Q == CONFIG(v).Q
    IN  IF v = "bayes4"
        THEN computeTrueEmotion(v, [Q |-> Q, wSelf |-> w, candX |-> generateAllOffers(Q)],
                                x, g.trueTheta, g.trueW)
        ELSE IF v = "bayes4em"
        THEN sampleEmotion(v, NewEmotionModel(Q, w, generateAllOffers(Q)),
                           x, g.trueTheta, g.trueW)
        ELSE computeTrueEmotion3(CONFIG(v), w, x, g.trueTheta, g.trueW)

\* right after updateWSelf(newWSelf) the weights are newWSelf and the episode
\* is fresh; an applied offer was answered and scored with the current weights
C6_State ==
    /\ lastResult.op = "updateWSelf" =>
          /\ CurrentWSelf(variant, CONFIG_W_SELF, game) = lastResult.newWSelf
          /\ CONFIG_W_SELF = lastResult.newWSelf
          /\ IsUniform(variant, game)
          /\ game.round = 0
          /\ game.history = <<>>
    /\ lastResult.op = "applyOffer" =>
          LET w == CurrentWSelf(variant, CONFIG_W_SELF, game)
              x == lastResult.offer
          IN  /\ lastResult.emotion = TrueEmotionWith(variant, w, game, x)
              /\ \A h \in Hypotheses(variant, game) :
                    Predicted(variant, CONFIG_W_SELF, game, h, x) =
                        PredictedWith(variant, w, game, h, x)

\* reset() and applyOffer() leave the weights as they are
C6_Persist ==
    lastResult'.op \in {"reset", "applyOffer"} =>
        CurrentWSelf(variant, CONFIG_W_SELF, game)' = CurrentWSelf(variant, CONFIG_W_SELF, game)

\* C6: updateWSelf(newWSelf) replaces the proposer weights and resets the
\* episode: right afterwards getWSelf() and CONFIG.W_SELF are newWSelf, the
\* posterior is uniform, round is 0 and the history is empty; the weights stay
\* newWSelf through later reset() and applyOffer() calls, and every later
\* prediction and true emotion is computed with them.
C6_UpdateWSelfTakesEffect == []C6_State /\ [][C6_Persist]_vars

\* an offer answered after the weights were replaced, where the old weights
\* would have given another emotion
C6_Witness ==
    /\ lastResult.op = "applyOffer"
    /\ CONFIG_W_SELF # CONFIG(variant).W_SELF
    /\ CurrentWSelf(variant, CONFIG_W_SELF, game) = CONFIG_W_SELF
    /\ lastResult.emotion #
           TrueEmotionWith(variant, CONFIG(variant).W_SELF, game, lastResult.offer)

\* ---------------------------------------------------------------------------
\* C7
\* ---------------------------------------------------------------------------

\* C7: in every state reached by construct (with or without customWSelf),
\* reset, updateWSelf and applyOffer, the grids the predictions read are the
\* grids of the configuration and every UMAX[ti][wi] they read is the maximum,
\* over all offers of the current Q, of the utility under hypothesis (ti, wi)
\* and the game's current wSelf.
C7_UMAXNeverStale ==
    IsFour(variant) =>
        LET c == CONFIG(variant)
            thetaGrid == generateThetaGrid(c.THETA_GRID_MIN, c.THETA_GRID_MAX,
                                           c.THETA_GRID_STEP)
            wGrid == generateWGrid(c.W_GRID_MIN, c.W_GRID_MAX, c.W_GRID_STEP)
        IN  /\ game.paramSpace.thetaValues = thetaGrid
            /\ game.paramSpace.wGrid = wGrid
            /\ game.engine.Q = c.Q
            /\ game.engine.wSelf = game.wSelf
            /\ DOMAIN game.engine.UMAX = DOMAIN thetaGrid
            /\ \A ti \in DOMAIN thetaGrid :
                  /\ DOMAIN game.engine.UMAX[ti] = DOMAIN wGrid
                  /\ \A wi \in DOMAIN wGrid :
                        game.engine.UMAX[ti][wi] =
                            FreshMaxUtility(variant, game.wSelf, thetaGrid[ti], wGrid[wi])

\* an update has read the cache of a game constructed with customWSelf, and
\* the cache differs from the one the configured weights would give
C7_Witness ==
    /\ IsFour(variant)
    /\ lastResult.op = "applyOffer"
    /\ game.wSelf # CONFIG_W_SELF
    /\ \E ti \in 1..game.paramSpace.Nt, wi \in 1..game.paramSpace.Nw :
          game.engine.UMAX[ti][wi] #
              FreshMaxUtility(variant, CONFIG_W_SELF,
                              game.paramSpace.thetaValues[ti], game.paramSpace.wGrid[wi])

\* ---------------------------------------------------------------------------
\* C8
\* ---------------------------------------------------------------------------

\* the offers a game has received since its construction or last reset
OffersOf(g) == [i \in DOMAIN g.history |-> g.history[i].offer]

\* the emotions it returned for them
EmotionsOf(g) == [i \in DOMAIN g.history |-> g.history[i].emotion]

\* the two games have the same proposer weights and the same true parameters
\* (Q, the grids and the likelihoods are those of the one CONFIG)
SameSetup ==
    /\ CurrentWSelf(variant, CONFIG_W_SELF, game) = CurrentWSelf(variant, CONFIG_W_SELF, peer)
    /\ game.trueTheta = peer.trueTheta
    /\ game.trueW = peer.trueW

\* C8: two independently constructed games with the same configuration and the
\* same true parameters that have received the same sequence of offers have
\* returned the same emotion in every round and hold identical posteriors;
\* as every interleaving of the two games' calls is explored, this covers the
\* state after every round.
C8_Deterministic ==
    (SameSetup /\ OffersOf(game) = OffersOf(peer)) =>
        /\ EmotionsOf(game) = EmotionsOf(peer)
        /\ \A h \in Hypotheses(variant, game) :
              Mass(variant, game, h) = Mass(variant, peer, h)

\* both games are two rounds into the same two offers, reached by separate
\* calls on each game, and the posterior has moved
C8_Witness ==
    /\ SameSetup
    /\ game.round = 2
    /\ OffersOf(game) = OffersOf(peer)
    /\ game.history[1].offer # game.history[2].offer
    /\ ~IsUniform(variant, game)

\* ---------------------------------------------------------------------------
\* C9
\* ---------------------------------------------------------------------------

\* C9 as claimed: building a grid with min > max or step <= 0 fails with
\* InvalidConfiguration and returns no grid.  The generators have no check:
\* with min > max they return the empty grid, and with step <= 0 and
\* min <= max their loop never ends.
C9_InvalidGridFails ==
    (gridCall.fn # "none" /\ (gridCall.min > gridCall.max \/ gridCall.step <= 0)) =>
        /\ gridCall.thrown = "InvalidConfiguration"
        /\ gridCall.outcome # "returned"

\* ---------------------------------------------------------------------------
\* C10
\* ---------------------------------------------------------------------------

\* the values of a generated theta grid, in degrees
DegreesOf(call) ==
    IF call.fn = "generateThetaGrid" THEN [i \in DOMAIN call.value |-> radToDeg(call.value[i])]
    ELSE call.value

\* C10 as claimed: for min <= max and step > 0 the theta grid contains min and
\* max exactly, also when step does not divide max - min, and is strictly
\* increasing.  The loop `for (t = min; t <= max + tol; t += step)` stops at
\* the last min + k * step that is <= max, which is max only when step divides
\* max - min.
C10_ThetaGridHasBothEndpoints ==
    (/\ gridCall.fn \in {"generateThetaGrid", "range"}
     /\ gridCall.min <= gridCall.max
     /\ gridCall.step > 0) =>
        LET degs == DegreesOf(gridCall)
        IN  /\ gridCall.outcome = "returned"
            /\ \E i \in DOMAIN degs : degs[i] = gridCall.min
            /\ \E i \in DOMAIN degs : degs[i] = gridCall.max
            /\ \A i \in DOMAIN degs : \A j \in DOMAIN degs : i < j => degs[i] < degs[j]

\* ---------------------------------------------------------------------------
\* C11
\* ---------------------------------------------------------------------------

\* the utility of candidate x under hypothesis (ti, wi), as the engine of game
\* g computes it
EngineUtility(g, ti, wi, x) ==
    UtilityOf(g.engine.Q, g.engine.wSelf, g.paramSpace.thetaValues[ti], g.paramSpace.wGrid[wi], x)

\* C11: for every hypothesis (ti, wi) no offer of the enumerated candidate set
\* has a utility above UMAX[ti][wi], and some enumerated offer attains
\* UMAX[ti][wi] exactly.
C11_UMAXIsLeastUpperBound ==
    IsFour(variant) =>
        \A ti \in 1..game.paramSpace.Nt, wi \in 1..game.paramSpace.Nw :
            /\ \A x \in SeqRange(game.engine.candX) :
                  EngineUtility(game, ti, wi, x) <= game.engine.UMAX[ti][wi]
            /\ \E x \in SeqRange(game.engine.candX) :
                  EngineUtility(game, ti, wi, x) = game.engine.UMAX[ti][wi]

\* the cache of a game built with customWSelf: a hypothesis whose bound is
\* attained by the first candidate alone, and one whose bound is attained by a
\* later candidate
C11_Witness ==
    /\ IsFour(variant)
    /\ game.wSelf # CONFIG(variant).W_SELF
    /\ \E ti \in 1..game.paramSpace.Nt, wi \in 1..game.paramSpace.Nw :
          \A k \in 2..Len(game.engine.candX) :
              EngineUtility(game, ti, wi, game.engine.candX[k]) < game.engine.UMAX[ti][wi]
    /\ \E ti \in 1..game.paramSpace.Nt, wi \in 1..game.paramSpace.Nw :
          EngineUtility(game, ti, wi, game.engine.candX[1]) < game.engine.UMAX[ti][wi]

\* ---------------------------------------------------------------------------
\* The offer enumeration and the cache on arbitrary quantities
\* ---------------------------------------------------------------------------

\* every Q_i ranges over 0..QBound
QBound == 2

\* the quantities tried
QInputs == (0..QBound) \X (0..QBound) \X (0..QBound) \X (0..QBound)

\* the proposer weights tried
CacheWSelfInputs == WSelfInputs("bayes4") \cup {<<-4, 4, 0, 1>>}

InitOffers ==
    /\ variant \in {"bayes4", "bayes4em"}
    /\ CONFIG_W_SELF = CONFIG(variant).W_SELF
    /\ game = NoGame
    /\ peer = NoGame
    /\ lastResult = [op |-> "none"]
    /\ gridCall = NoCall
    /\ running = Idle

\* generateAllOffers(Q), called once
CallGenerateAllOffers ==
    /\ gridCall = NoCall
    /\ \E Q \in QInputs :
          gridCall' = [fn |-> "generateAllOffers", Q |-> Q, value |-> generateAllOffers(Q)]
    /\ UNCHANGED <<variant, CONFIG_W_SELF, game, lastResult, peer, running>>

\* new BayesianInferenceEngine(paramSpace, Q, wSelf, generateAllOffers(Q)) on
\* the grids of the configuration, called once: the cache _precomputeUMAX leaves
CallPrecomputeUMAX ==
    /\ gridCall = NoCall
    /\ \E Q \in QInputs, wSelf \in CacheWSelfInputs :
          LET c == CONFIG(variant)
              ps == NewParameterSpace(
                        generateThetaGrid(c.THETA_GRID_MIN, c.THETA_GRID_MAX, c.THETA_GRID_STEP),
                        generateWGrid(c.W_GRID_MIN, c.W_GRID_MAX, c.W_GRID_STEP))
          IN  gridCall' = [ fn          |-> "precomputeUMAX",
                            Q           |-> Q,
                            wSelf       |-> wSelf,
                            thetaValues |-> ps.thetaValues,
                            wGrid       |-> ps.wGrid,
                            value       |-> NewEngine(ps, Q, wSelf, generateAllOffers(Q)).UMAX ]
    /\ UNCHANGED <<variant, CONFIG_W_SELF, game, lastResult, peer, running>>

NextOffers == CallGenerateAllOffers \/ CallPrecomputeUMAX

SpecOffers == InitOffers /\ [][NextOffers]_vars

\* ---------------------------------------------------------------------------
\* C12
\* ---------------------------------------------------------------------------

\* the closed-form maximum over the box [0, Q_i]:
\* cos(theta) * (w . Q) + sum_i Q_i * max(0, sin(theta) * wSelf_i - cos(theta) * w_i)
VertexMax(Q, wSelf, theta, wOther) ==
    cos(theta) * dot(wOther, Q)
        + SumSeq([i \in DOMAIN Q |->
                     Q[i] * Max(0, sin(theta) * wSelf[i] - cos(theta) * wOther[i])])

\* C12: for every hypothesis of the (small) grid the brute-force UMAX that
\* _precomputeUMAX computes over all enumerated offers equals the closed-form
\* vertex maximum.
C12_BruteForceEqualsVertexMax ==
    gridCall.fn = "precomputeUMAX" =>
        \A ti \in DOMAIN gridCall.thetaValues, wi \in DOMAIN gridCall.wGrid :
            gridCall.value[ti][wi] =
                VertexMax(gridCall.Q, gridCall.wSelf,
                          gridCall.thetaValues[ti], gridCall.wGrid[wi])

\* a cache built for unequal quantities in which some hypothesis has its
\* maximum at a mixed vertex: neither at the zero offer nor at the offer Q
C12_Witness ==
    /\ gridCall.fn = "precomputeUMAX"
    /\ gridCall.Q = <<2, 1, 2, 1>>
    /\ \E ti \in DOMAIN gridCall.thetaValues, wi \in DOMAIN gridCall.wGrid :
          LET U(x) == UtilityOf(gridCall.Q, gridCall.wSelf,
                                gridCall.thetaValues[ti], gridCall.wGrid[wi], x)
          IN  /\ gridCall.value[ti][wi] > U(<<0, 0, 0, 0>>)
              /\ gridCall.value[ti][wi] > U(gridCall.Q)

\* ---------------------------------------------------------------------------
\* C17
\* ---------------------------------------------------------------------------

\* the integer vectors 0 <= x_i <= Q_i
Box(Q) == {x \in QInputs : \A i \in 1..4 : x[i] <= Q[i]}

\* a comes strictly before b in lexicographic order
LexLess(a, b) ==
    \E i \in 1..4 : a[i] < b[i] /\ \A j \in 1..(i - 1) : a[j] = b[j]

\* C17: generateAllOffers(Q) returns exactly the integer vectors
\* 0 <= x_i <= Q_i, each once (its length is the product of the Q_i + 1), in
\* strictly increasing lexicographic order.
C17_AllOffersExactlyOnceInOrder ==
    gridCall.fn = "generateAllOffers" =>
        LET Q == gridCall.Q
            offers == gridCall.value
        IN  /\ SeqRange(offers) = Box(Q)
            /\ Len(offers) = (Q[1] + 1) * (Q[2] + 1) * (Q[3] + 1) * (Q[4] + 1)
            /\ \A k \in 1..(Len(offers) - 1) : LexLess(offers[k], offers[k + 1])

\* the enumeration for four unequal-looking quantities, 0 among them: 18 offers
C17_Witness ==
    /\ gridCall.fn = "generateAllOffers"
    /\ gridCall.Q = <<2, 1, 0, 2>>
    /\ Len(gridCall.value) = 18

\* ---------------------------------------------------------------------------
\* The linear store and the log store fed the same rounds
\* ---------------------------------------------------------------------------

\* rounds fed to the two stores
RefineRounds == 5

\* the grids of the pair: 2 x 2 hypotheses in the linear store, 4 x 1 in the
\* log store, matched in the order the nested loops visit them
RefineThetaValues == <<-90, 90>>

RefineWGrid == << <<1, 0, 0, 0>>, <<0, 1, 0, 0>> >>

RefineConfig3 ==
    [CONFIG("bayes3") EXCEPT !.THETA_GRID_STEP = 60, !.W_GRID_MIN = 4]

RefineHypotheses == 1..4

\* the emotions a hypothesis predicts and the observer sees
RefineEmotions == {0, 1}

\* `game` holds the linear store, `peer` the log store
InitRefine ==
    /\ variant = "bayes4"
    /\ CONFIG_W_SELF = CONFIG(variant).W_SELF
    /\ game = [round |-> 0, history |-> <<>>,
               paramSpace |-> NewParameterSpace(RefineThetaValues, RefineWGrid)]
    /\ peer = [round |-> 0, history |-> <<>>,
               paramSpace |-> NewParameterSpace3(RefineConfig3)]
    /\ lastResult = [op |-> "none"]
    /\ gridCall = NoCall
    /\ running = Idle

\* one round: both stores are updated with the same observed emotion and the
\* same predicted emotion of every hypothesis
FeedRound ==
    /\ game.round < RefineRounds
    /\ \E observedEmotion \in RefineEmotions, predicted \in [RefineHypotheses -> RefineEmotions] :
          LET ps == game.paramSpace
              ps3 == peer.paramSpace
              keys == GridKeys(ps3.thetaValues, ps3.wCombinations)
          IN  /\ game' = [game EXCEPT
                    !.round = @ + 1,
                    !.paramSpace = updateFromPredictions(variant, ps,
                        [ti \in 1..ps.Nt |-> [wi \in 1..ps.Nw |->
                            predicted[(ti - 1) * ps.Nw + wi]]],
                        observedEmotion)]
              /\ peer' = [peer EXCEPT
                    !.round = @ + 1,
                    !.paramSpace = updateWithLogLikelihood(ps3,
                        [k \in DOMAIN ps3.logPosterior |->
                            logLikelihoodFunc(RefineConfig3,
                                predicted[CHOOSE i \in DOMAIN keys : keys[i] = k],
                                observedEmotion)])]
    /\ UNCHANGED <<variant, CONFIG_W_SELF, lastResult, gridCall, running>>

\* reset() of both stores: back to the uniform prior
ResetBoth ==
    /\ game.round > 0
    /\ game' = [round |-> 0, history |-> <<>>,
                paramSpace |-> NewParameterSpace(RefineThetaValues, RefineWGrid)]
    /\ peer' = [round |-> 0, history |-> <<>>,
                paramSpace |-> [peer.paramSpace EXCEPT !.logPosterior =
                    initUniformPrior(peer.paramSpace.thetaValues, peer.paramSpace.wCombinations)]]
    /\ UNCHANGED <<variant, CONFIG_W_SELF, lastResult, gridCall, running>>

NextRefine == FeedRound \/ ResetBoth

SpecRefine == InitRefine /\ [][NextRefine]_vars

\* ---------------------------------------------------------------------------
\* C13
\* ---------------------------------------------------------------------------

\* C13: started from the same uniform prior and fed the same rounds (at most
\* five), the linear update and the log update hold the same posterior after
\* every round: exp(logPosterior[h]) = posterior[h] for every hypothesis h.
C13_LogUpdateRefinesLinearUpdate ==
    LET linear == Flatten(game.paramSpace.distribution)
        logs == LogValues(peer.paramSpace)
    IN  /\ Len(linear) = Len(logs)
        /\ \A h \in DOMAIN linear :
              /\ logs[h].kind = "num"
              /\ Exp(logs[h]) = linear[h]

\* five rounds fed, the hypotheses told apart into at least three masses
C13_Witness ==
    /\ game.round = 5
    /\ peer.round = 5
    /\ Cardinality(SeqRange(Flatten(game.paramSpace.distribution))) >= 3

\* ---------------------------------------------------------------------------
\* Marginals and MAP estimates
\* ---------------------------------------------------------------------------

\* Array.prototype.sort((a, b) => a - b) on distinct numbers
RECURSIVE SortAscending(_)
SortAscending(S) ==
    IF S = {} THEN <<>>
    ELSE LET m == CHOOSE m \in S : \A v \in S : m <= v
         IN  <<m>> \o SortAscending(S \ {m})

\* getComponentWiseMarginals: for each of the four components a Map from the
\* values found in that column of wGrid to the summed marginal, sorted by value
getComponentWiseMarginals(ps) ==
    LET wMarginal == getMarginalW(ps)
    IN  [comp \in 1..4 |->
            LET valueProbs == [val \in {ps.wGrid[j][comp] : j \in 1..ps.Nw} |->
                    LET js == SortAscending({j \in 1..ps.Nw : ps.wGrid[j][comp] = val})
                    IN  RatSum([n \in DOMAIN js |-> wMarginal[js[n]]])]
                sorted == SortAscending(DOMAIN valueProbs)
            IN  [ component |-> comp - 1,
                  values    |-> sorted,
                  probs     |-> [n \in DOMAIN sorted |-> valueProbs[sorted[n]]] ]]

\* getMarginalWComponents summing over the first theta only
getMarginalWComponentsFirstTheta(ps) ==
    LET keys == GridKeys(<<ps.thetaValues[1]>>, ps.wCombinations)
    IN  [dim \in 1..3 |->
            [val \in SeqRange(ps.wComponentValues) |->
                RatSum([i \in DOMAIN keys |->
                    IF keys[i][2][dim] = val THEN Exp(ps.logPosterior[keys[i]])
                    ELSE <<0, 1>>])]]

\* getMarginalWComponents: for each of the three dimensions an object keyed
\* by the component values, exp(logPosterior) summed over the hypotheses
\* whose w has that value in the dimension
getMarginalWComponents(ps) ==
    LET keys == GridKeys(ps.thetaValues, ps.wCombinations)
    IN  [dim \in 1..3 |->
            [val \in SeqRange(ps.wComponentValues) |->
                RatSum([i \in DOMAIN keys |->
                    IF keys[i][2][dim] = val THEN Exp(ps.logPosterior[keys[i]])
                    ELSE <<0, 1>>])]]

\* getMarginalTheta of the three-issue script: exp(logsumexp) over the
\* hypotheses of each theta
getMarginalTheta3(ps) ==
    [theta \in SeqRange(ps.thetaValues) |->
        Exp(logsumexp([i \in DOMAIN ps.wCombinations |->
                          ps.logPosterior[key(theta, ps.wCombinations[i])]]))]

\* ---------------------------------------------------------------------------
\* C15
\* ---------------------------------------------------------------------------

\* the sum of a marginal kept as an object keyed by grid value
MarginalTotal(marginal) ==
    LET ks == SortAscending(DOMAIN marginal)
    IN  RatSum([n \in DOMAIN ks |-> marginal[ks[n]]])

\* the discretised weight values of the configuration
WeightValues(v) ==
    LET c == CONFIG(v)
    IN  SeqRange(LoopValues(c.W_GRID_MIN, c.W_GRID_MAX, c.W_GRID_STEP))

\* C15: after any sequence of updates every per-component weight marginal sums
\* to 1 and has exactly one bucket per discretised weight value, and the theta
\* marginal sums to 1.
C15_MarginalsAreDistributions ==
    IF IsFour(variant)
    THEN LET marginals == getComponentWiseMarginals(game.paramSpace)
         IN  \A comp \in 1..4 :
                /\ RatSum(marginals[comp].probs) = <<1, 1>>
                /\ Len(marginals[comp].values) = Cardinality(WeightValues(variant))
                /\ SeqRange(marginals[comp].values) = WeightValues(variant)
    ELSE /\ StoreIsNumeric(variant, game)
         /\ LET marginals == getMarginalWComponents(game.engine.paramSpace)
            IN  \A dim \in 1..3 :
                   /\ MarginalTotal(marginals[dim]) = <<1, 1>>
                   /\ DOMAIN marginals[dim] = WeightValues(variant)
         /\ MarginalTotal(getMarginalTheta3(game.engine.paramSpace)) = <<1, 1>>

\* a three-issue game after its last update whose weight marginals and theta
\* marginal are no longer uniform
C15_Witness ==
    /\ variant = "bayes3"
    /\ game.round = MaxRounds
    /\ LET marginals == getMarginalWComponents(game.engine.paramSpace)
           thetas == getMarginalTheta3(game.engine.paramSpace)
       IN  /\ \A dim \in 1..3 : \E a, b \in DOMAIN marginals[dim] :
                  marginals[dim][a] # marginals[dim][b]
           /\ \E a, b \in DOMAIN thetas : thetas[a] # thetas[b]

\* the scan with `>=` for `>`: a later value with the same probability wins
RECURSIVE MAPScanLastWins(_, _, _)
MAPScanLastWins(values, marginal, n) ==
    IF n = 0 THEN [isNull |-> TRUE, maxProb |-> <<0, 1>>, value |-> 0]
    ELSE LET before == MAPScanLastWins(values, marginal, n - 1)
             val == values[n]
         IN  IF before.isNull \/ ~RatLess(marginal[val], before.maxProb)
             THEN [isNull |-> FALSE, maxProb |-> marginal[val], value |-> val]
             ELSE before

\* the scan of getThetaMAP and getWMAP over the first n grid values:
\* maxProb starts at -Infinity and the value at null (isNull), and a value
\* replaces the kept one only if its probability is strictly larger
RECURSIVE MAPScan(_, _, _)
MAPScan(values, marginal, n) ==
    IF n = 0 THEN [isNull |-> TRUE, maxProb |-> <<0, 1>>, value |-> 0]
    ELSE LET before == MAPScan(values, marginal, n - 1)
             val == values[n]
         IN  IF before.isNull \/ RatLess(before.maxProb, marginal[val])
             THEN [isNull |-> FALSE, maxProb |-> marginal[val], value |-> val]
             ELSE before

\* getThetaMAP
getThetaMAP(ps) ==
    MAPScan(ps.thetaValues, getMarginalTheta3(ps), Len(ps.thetaValues))

\* getWMAP, one scan per dimension
getWMAP(ps) ==
    LET marginals == getMarginalWComponents(ps)
    IN  [dim \in 1..3 |->
            MAPScan(ps.wComponentValues, marginals[dim], Len(ps.wComponentValues))]

\* ---------------------------------------------------------------------------
\* C16
\* ---------------------------------------------------------------------------

\* `found` is the value of `values` with the largest marginal, and the first
\* such value in grid order
IsFirstMaximum(values, marginal, found) ==
    /\ ~found.isNull
    /\ \E n \in DOMAIN values :
          /\ values[n] = found.value
          /\ \A k \in DOMAIN values : ~RatLess(marginal[values[n]], marginal[values[k]])
          /\ \A k \in 1..(n - 1) : RatLess(marginal[values[k]], marginal[values[n]])

\* C16: getThetaMAP and getWMAP return the grid value whose marginal is
\* maximal and, among equal marginals, the first in grid order; under the
\* uniform posterior that is the grid minimum of theta and of every weight
\* component.
C16_MAPIsFirstMaximum ==
    (variant = "bayes3" /\ StoreIsNumeric(variant, game)) =>
        LET ps == game.engine.paramSpace
            marginals == getMarginalWComponents(ps)
            wMAP == getWMAP(ps)
        IN  /\ IsFirstMaximum(ps.thetaValues, getMarginalTheta3(ps), getThetaMAP(ps))
            /\ \A dim \in 1..3 :
                  IsFirstMaximum(ps.wComponentValues, marginals[dim], wMAP[dim])
            /\ IsUniform(variant, game) =>
                  /\ getThetaMAP(ps).value = CONFIG(variant).THETA_GRID_MIN
                  /\ \A dim \in 1..3 : wMAP[dim].value = CONFIG(variant).W_GRID_MIN

\* after an update the theta MAP is not the grid minimum and shares its
\* marginal with a later grid value, and some weight MAP is not the grid
\* minimum either
C16_Witness ==
    /\ variant = "bayes3"
    /\ game.round >= 1
    /\ LET ps == game.engine.paramSpace
           thetas == getMarginalTheta3(ps)
           found == getThetaMAP(ps)
       IN  /\ found.value # ps.thetaValues[1]
           /\ \E t \in SeqRange(ps.thetaValues) : t > found.value /\ thetas[t] = thetas[found.value]
           /\ \E dim \in 1..3 : getWMAP(ps)[dim].value # ps.wComponentValues[1]

\* ---------------------------------------------------------------------------
\* The emotion preview of the UI
\* ---------------------------------------------------------------------------

\* previewEmotion that goes through applyOffer to get the emotion
previewEmotionApplying(v, W_SELF, g, x) ==
    LET applied == applyOffer(v, W_SELF, g, x)
    IN  [ game    |-> applied,
          emotion |-> applied.history[Len(applied.history)].emotion ]

\* previewEmotion of the UI for the offer x on the sliders: the game after
\* the call and the emotion shown; computeTrueEmotion and sampleEmotion
\* assign no field
previewEmotion(v, W_SELF, g, x) ==
    [ game    |-> g,
      emotion |-> IF IsFour(v) THEN trueEmotion4(v, g, x)
                  ELSE computeTrueEmotion3(CONFIG(v), W_SELF, x, g.trueTheta, g.trueW) ]

\* the user moves a slider in real-time mode
PreviewEmotion ==
    /\ \E x \in PairOfferInputs(variant) :
          LET shown == previewEmotion(variant, CONFIG_W_SELF, game, x)
          IN  /\ game' = shown.game
              /\ lastResult' = [op |-> "previewEmotion", offer |-> x, emotion |-> shown.emotion]
    /\ UNCHANGED <<variant, CONFIG_W_SELF, peer, gridCall, running>>

PreviewApplyOffer == ApplyOfferFrom(PairOfferInputs(variant))

NextPreview == PreviewEmotion \/ PreviewApplyOffer \/ Reset

SpecPreview == Init /\ [][NextPreview]_vars

\* ---------------------------------------------------------------------------
\* C18
\* ---------------------------------------------------------------------------

\* the posterior store of a game
PosteriorOf(v, g) ==
    IF IsFour(v) THEN g.paramSpace.distribution ELSE g.engine.paramSpace.logPosterior

C18_Step ==
    /\ lastResult'.op = "previewEmotion" =>
          /\ PosteriorOf(variant, game') = PosteriorOf(variant, game)
          /\ game'.round = game.round
          /\ game'.history = game.history
    /\ PosteriorOf(variant, game') # PosteriorOf(variant, game) =>
          \/ lastResult'.op = "applyOffer"
          \/ lastResult'.op = "reset" /\ IsUniform(variant, game')

\* C18: computing the counterpart's true emotion for an offer (the preview of
\* the UI) leaves the posterior, the round counter and the history unchanged;
\* the posterior changes only in applyOffer and in the reset to uniform.
C18_PreviewLeavesStateAlone == [][C18_Step]_vars

\* an emotion has been previewed on a game whose posterior an update has
\* already moved, and the preview shows what the last applyOffer observed for
\* the same offer
C18_Witness ==
    /\ lastResult.op = "previewEmotion"
    /\ game.round >= 1
    /\ ~IsUniform(variant, game)
    /\ game.history[Len(game.history)].offer = lastResult.offer
    /\ game.history[Len(game.history)].emotion = lastResult.emotion

\* ---------------------------------------------------------------------------
\* The history and the offer array of the caller
\* ---------------------------------------------------------------------------

\* the write x[i] = val when the history entry holds the array x itself
offerArrayWriteAliased(g, i, val) ==
    IF g.history = <<>> THEN g
    ELSE [g EXCEPT !.history[Len(g.history)].offer[i] = val]

\* the game after the caller writes x[i] = val into the array x it passed to
\* the last applyOffer: the entry pushed holds the copy [...x], so no field of
\* the game refers to x
offerArrayWrite(g, i, val) == g

\* the values the caller overwrites an entry of its array with
OverwriteValues == {9}

\* the caller reuses the array it passed to applyOffer
CallerMutatesOffer ==
    /\ lastResult.op = "applyOffer"
    /\ \E i \in DOMAIN lastResult.offer, val \in OverwriteValues :
          /\ game' = offerArrayWrite(game, i, val)
          /\ lastResult' = [lastResult EXCEPT !.op = "offerMutated",
                                              !.offer[i] = val]
    /\ UNCHANGED <<variant, CONFIG_W_SELF, peer, gridCall, running>>

NextHistory == PreviewApplyOffer \/ CallerMutatesOffer \/ Reset \/ UpdateWSelf

SpecHistory == Init /\ [][NextHistory]_vars

\* ---------------------------------------------------------------------------
\* C19
\* ---------------------------------------------------------------------------

C19_Step ==
    LET before == game.history
        after == game'.history
    IN  /\ lastResult'.op = "applyOffer" =>
              /\ Len(after) = Len(before) + 1
              /\ after[Len(after)].offer = lastResult'.offer
              /\ after[Len(after)].emotion =
                     TrueEmotion(variant, CONFIG_W_SELF, game, lastResult'.offer)
        /\ Len(after) >= Len(before) => SubSeq(after, 1, Len(before)) = before
        /\ lastResult'.op = "offerMutated" => after = before
        /\ Len(after) < Len(before) =>
              /\ lastResult'.op \in {"reset", "updateWSelf"}
              /\ after = <<>>
        /\ lastResult'.op \in {"reset", "updateWSelf"} => after = <<>>

\* C19: within an episode the history is append-only: each applyOffer appends
\* exactly one entry with that round's offer and observed emotion, recorded
\* entries are never modified, reordered or removed (also when the caller
\* later writes into the offer array it passed), and the length decreases only
\* through reset or updateWSelf, which empty the history.
C19_HistoryAppendOnly == [][C19_Step]_vars

\* two entries are recorded and the caller has since overwritten the array it
\* passed for the second: the entry still holds the offer as it was applied
C19_Witness ==
    /\ lastResult.op = "offerMutated"
    /\ Len(game.history) = 2
    /\ game.history[2].offer # lastResult.offer
    /\ game.history[2].offer \in PairOfferInputs(variant)
    /\ game.history[1].offer # game.history[2].offer

\* ---------------------------------------------------------------------------
\* The label functions on utilities around the limit
\* ---------------------------------------------------------------------------

\* maximal utilities tried, in units of 1 / TRIG_SCALE
MaxUtilityInputs == {0, 35000, 123456}

\* distances utility - (maxUtility - EMOTION_RANGE_MAX) tried: below, inside
\* and above the band of 1e-3 around the limit, and around the whole steps
DeltaInputs ==
    {-80000, -10000, -11, -10, -5, -1, 0, 1, 5, 10, 11, 5000, 9999, 10000, 10001,
     20000, 35000, 60000, 60001, 69999, 70000, 70001, 90000}

InitLabel ==
    /\ variant \in {"bayes4", "bayes4em"}
    /\ CONFIG_W_SELF = CONFIG(variant).W_SELF
    /\ game = NoGame
    /\ peer = NoGame
    /\ lastResult = [op |-> "none"]
    /\ gridCall = NoCall
    /\ running = Idle

\* one utility labelled twice: as predictEmotion / _predictEmotionFast labels
\* the utility of a hypothesis, and as computeTrueEmotion ("bayes4") or
\* EmotionModel.sampleEmotion ("bayes4em") labels the utility of the true
\* parameters
CallUtilityToEmotion ==
    /\ gridCall = NoCall
    /\ \E maxUtility \in MaxUtilityInputs, delta \in DeltaInputs :
          LET u == maxUtility - CONFIG(variant).EMOTION_RANGE_MAX * TRIG_SCALE + delta
          IN  gridCall' =
                  [ fn         |-> "utilityToEmotion",
                    utility    |-> u,
                    maxUtility |-> maxUtility,
                    predicted  |-> utilityToEmotion(variant, u, maxUtility),
                    sampled    |-> IF variant = "bayes4"
                                   THEN utilityToEmotion(variant, u, maxUtility)
                                   ELSE emotionLadder(variant, u, maxUtility) ]
    /\ UNCHANGED <<variant, CONFIG_W_SELF, game, lastResult, peer, running>>

NextLabel == CallUtilityToEmotion

SpecLabel == InitLabel /\ [][NextLabel]_vars

\* ---------------------------------------------------------------------------
\* C20
\* ---------------------------------------------------------------------------

\* the label of the max-anchored scheme with eps = 1e-3
SchemeLabel(v, u, maxUtility) ==
    LET EmotionMax == CONFIG(v).EMOTION_RANGE_MAX
        limit == maxUtility - EmotionMax * TRIG_SCALE
        delta == u - limit
        eps == TRIG_SCALE \div 1000
    IN  IF delta < -eps THEN -1
        ELSE IF delta >= -eps /\ delta <= eps THEN 0
        ELSE Min(EmotionMax, CeilUnits(delta))

\* C20: with limit = UMAX - EmotionMax and delta = utility - limit the label is
\* -1 when delta < -eps, 0 when |delta| <= eps and min(EmotionMax, ceil(delta))
\* otherwise, eps = 1e-3, for the label predicted for a hypothesis and for the
\* label sampled from the true parameters alike.  EmotionModel.utilityToEmotion,
\* which samples the label in the second four-issue script, takes its band
\* from CONFIG.NEUTRAL_EPSILON = 0: a utility within 1e-3 of the limit but not
\* on it is labelled -1 or 1 there, and 0 by the prediction.
C20_LabelsFollowMaxAnchoredScheme ==
    gridCall.fn = "utilityToEmotion" =>
        /\ gridCall.predicted = SchemeLabel(variant, gridCall.utility, gridCall.maxUtility)
        /\ gridCall.sampled = SchemeLabel(variant, gridCall.utility, gridCall.maxUtility)

\* ---------------------------------------------------------------------------
\* C21
\* ---------------------------------------------------------------------------

\* C21: when the true parameters are a hypothesis of the grid, so that the
\* utility and the maximal utility of the truth are those of the hypothesis,
\* the emotion sampled for the true counterpart equals the emotion predicted
\* for the hypothesis, for every utility, those within eps of the limit
\* included.  In the second four-issue script the two labels come from
\* different bands (NEUTRAL_EPSILON = 0 against eps = 1e-3) and differ inside
\* the band.
C21_SampledEqualsPredicted ==
    gridCall.fn = "utilityToEmotion" => gridCall.sampled = gridCall.predicted

\* ---------------------------------------------------------------------------
\* normalize2D on arbitrary unnormalised posteriors
\* ---------------------------------------------------------------------------

\* the entries prior * likelihood tried: 0 (a mass that has vanished) and
\* products of masses and likelihoods
UnnormalisedInputs ==
    {<<0, 1>>, CONFIG("bayes4").LIKELIHOOD_MISMATCH, <<1, 4>>, CONFIG("bayes4").LIKELIHOOD_MATCH}

\* the 2 x 2 arrays over those entries
Posterior2DInputs ==
    {<< <<a, b>>, <<c, d>> >> : a \in UnnormalisedInputs, b \in UnnormalisedInputs,
                                c \in UnnormalisedInputs, d \in UnnormalisedInputs}

InitNormalize ==
    /\ variant = "bayes4"
    /\ CONFIG_W_SELF = CONFIG(variant).W_SELF
    /\ game = NoGame
    /\ peer = NoGame
    /\ lastResult = [op |-> "none"]
    /\ gridCall = NoCall
    /\ running = Idle

\* the last statement of update: updateDistribution(normalize2D(posterior))
CallNormalize2D ==
    /\ gridCall = NoCall
    /\ \E posterior \in Posterior2DInputs :
          gridCall' = [fn |-> "normalize2D", arr2d |-> posterior, value |-> normalize2D(posterior)]
    /\ UNCHANGED <<variant, CONFIG_W_SELF, game, lastResult, peer, running>>

NextNormalize == CallNormalize2D

SpecNormalize == InitNormalize /\ [][NextNormalize]_vars

\* ---------------------------------------------------------------------------
\* C22
\* ---------------------------------------------------------------------------

\* C22: in the linear update, when the sum of the unnormalised posterior is
\* <= 0 the stored posterior is exactly uniform, 1 / (Nt * Nw) everywhere;
\* when the sum is > 0 every entry is the unnormalised entry divided by the sum.
C22_NormaliseOrUniform ==
    gridCall.fn = "normalize2D" =>
        LET arr2d == gridCall.arr2d
            total == RatSum(Flatten(arr2d))
            Nt == Len(arr2d)
            Nw == Len(arr2d[1])
        IN  \A ti \in 1..Nt, wi \in 1..Nw :
               IF RatLess(<<0, 1>>, total)
               THEN RatMul(gridCall.value[ti][wi], total) = arr2d[ti][wi]
               ELSE gridCall.value[ti][wi] = <<1, Nt * Nw>>

\* the call on the posterior whose every entry has vanished: it came back
\* uniform
C22_Witness ==
    /\ gridCall.fn = "normalize2D"
    /\ \A ti \in 1..2, wi \in 1..2 : gridCall.arr2d[ti][wi] = <<0, 1>>
    /\ \A ti \in 1..2, wi \in 1..2 : gridCall.value[ti][wi] = <<1, 4>>

\* ---------------------------------------------------------------------------
\* Handlers statement by statement
\* ---------------------------------------------------------------------------

\* a dispatch that does not wait for the running handler to return
CallStackEmptyAlways(r) == TRUE

\* whether the event loop can dispatch a handler or a getter: the handlers are
\* synchronous methods, so only when none is on the call stack
CallStackEmpty(r) == r.handler = "none"

\* the statements of reset() of the four-issue scripts, one at a time (the
\* second script has statement 3, the first goes from 2 to 4)
resetStatement4(v, g, pattern, step) ==
    CASE step = 1 -> selectPattern4(g, pattern)
      [] step = 2 -> [g EXCEPT !.paramSpace = NewParameterSpace(g.thetaGrid, g.wGrid)]
      [] step = 3 -> [g EXCEPT !.emotionModel = NewEmotionModel(g.Q, g.wSelf, g.candX)]
      [] step = 4 -> [g EXCEPT !.engine = NewEngine(g.paramSpace, g.Q, g.wSelf, g.candX)]
      [] step = 5 -> [g EXCEPT !.round = 0]
      [] step = 6 -> [g EXCEPT !.history = <<>>]

\* the statement of reset() that follows statement `step`
nextResetStatement4(v, step) == IF step = 2 /\ v = "bayes4" THEN 4 ELSE step + 1

\* the statements of applyOffer(offer) of the three-issue script after the
\* emotion is computed: the loop adding the log-likelihoods, the
\* normalisation, round++, history.push
applyOfferStatement3(c, W_SELF, g, offer, emotion, step) ==
    CASE step = 1 ->
            [g EXCEPT !.engine.paramSpace.logPosterior =
                [k \in DOMAIN @ |->
                    LogPlus(@[k],
                            logLikelihoodFunc(c,
                                computeTrueEmotion3(c, W_SELF, offer, k[1], k[2]), emotion))]]
      [] step = 2 -> [g EXCEPT !.engine.paramSpace = normalizeLogPosterior(@)]
      [] step = 3 -> [g EXCEPT !.round = @ + 1]
      [] step = 4 -> [g EXCEPT !.history = Append(@, [offer |-> offer, emotion |-> emotion])]

\* the user presses New Game on a four-issue page
StartReset4 ==
    /\ IsFour(variant)
    /\ CallStackEmpty(running)
    /\ \E p \in PatternsOf(variant) :
          /\ game' = resetStatement4(variant, game, p, 1)
          /\ running' = [handler |-> "reset", step |-> 1, pattern |-> p]
    /\ lastResult' = [op |-> "reset"]
    /\ UNCHANGED <<variant, CONFIG_W_SELF, peer, gridCall>>

\* the user submits new proposer weights on a four-issue page: the two
\* statements of updateWSelf before its call of reset()
StartUpdateWSelf4 ==
    /\ IsFour(variant)
    /\ CallStackEmpty(running)
    /\ \E w \in WSelfInputs(variant), p \in PatternsOf(variant) :
          /\ game' = setWSelf4(game, w)
          /\ CONFIG_W_SELF' = w
          /\ running' = [handler |-> "reset", step |-> 0, pattern |-> p]
    /\ lastResult' = [op |-> "updateWSelf"]
    /\ UNCHANGED <<variant, peer, gridCall>>

\* the next statement of the running reset()
StepReset4 ==
    /\ running.handler = "reset"
    /\ LET step == nextResetStatement4(variant, running.step)
       IN  /\ game' = resetStatement4(variant, game, running.pattern, step)
           /\ running' = IF step = 6 THEN Idle ELSE [running EXCEPT !.step = step]
    /\ UNCHANGED <<variant, CONFIG_W_SELF, lastResult, peer, gridCall>>

\* applyOffer on a four-issue page, in one piece
AtomicApplyOffer4 ==
    /\ IsFour(variant)
    /\ CallStackEmpty(running)
    /\ game.round < MaxRounds
    /\ \E x \in PairOfferInputs(variant) : game' = applyOffer4(variant, game, x)
    /\ lastResult' = [op |-> "applyOffer"]
    /\ UNCHANGED <<variant, CONFIG_W_SELF, peer, gridCall, running>>

\* the user submits an offer on the three-issue page
StartApplyOffer3 ==
    /\ ~IsFour(variant)
    /\ CallStackEmpty(running)
    /\ game.round < MaxRounds
    /\ \E offer \in PairOfferInputs(variant) :
          LET c == CONFIG(variant)
              emotion == computeTrueEmotion3(c, CONFIG_W_SELF, offer, game.trueTheta, game.trueW)
          IN  /\ game' = applyOfferStatement3(c, CONFIG_W_SELF, game, offer, emotion, 1)
              /\ running' = [handler |-> "applyOffer", step |-> 1,
                             offer |-> offer, emotion |-> emotion]
    /\ lastResult' = [op |-> "applyOffer"]
    /\ UNCHANGED <<variant, CONFIG_W_SELF, peer, gridCall>>

\* the next statement of the running applyOffer
StepApplyOffer3 ==
    /\ running.handler = "applyOffer"
    /\ LET step == running.step + 1
       IN  /\ game' = applyOfferStatement3(CONFIG(variant), CONFIG_W_SELF, game,
                                           running.offer, running.emotion, step)
           /\ running' = IF step = 4 THEN Idle ELSE [running EXCEPT !.step = step]
    /\ UNCHANGED <<variant, CONFIG_W_SELF, lastResult, peer, gridCall>>

\* reset() on the three-issue page, in one piece
AtomicReset3 ==
    /\ ~IsFour(variant)
    /\ CallStackEmpty(running)
    /\ game.round > 0
    /\ \E p \in PatternsOf(variant) : game' = reset3(game, p)
    /\ lastResult' = [op |-> "reset"]
    /\ UNCHANGED <<variant, CONFIG_W_SELF, peer, gridCall, running>>

\* a getter or the next applyOffer reads the game: UMAX, the posterior, the
\* round and the history as they are at the dispatch
Observe ==
    /\ CallStackEmpty(running)
    /\ lastResult' = [op |-> "read", seen |-> game, W_SELF |-> CONFIG_W_SELF]
    /\ UNCHANGED <<variant, CONFIG_W_SELF, game, peer, gridCall, running>>

NextAtomic ==
    \/ StartReset4
    \/ StartUpdateWSelf4
    \/ StepReset4
    \/ AtomicApplyOffer4
    \/ StartApplyOffer3
    \/ StepApplyOffer3
    \/ AtomicReset3
    \/ Observe

SpecAtomic == Init /\ [][NextAtomic]_vars

\* ---------------------------------------------------------------------------
\* C23
\* ---------------------------------------------------------------------------

\* the posterior store that the first n entries of the history of g lead to
\* from the uniform prior
RECURSIVE ReplayTo(_, _, _, _)
ReplayTo(v, W_SELF, g, n) ==
    IF n = 0
    THEN IF IsFour(v) THEN NewParameterSpace(g.thetaGrid, g.wGrid)
         ELSE [g.engine.paramSpace EXCEPT !.logPosterior =
                  initUniformPrior(g.engine.paramSpace.thetaValues,
                                   g.engine.paramSpace.wCombinations)]
    ELSE LET before == ReplayTo(v, W_SELF, g, n - 1)
             entry == g.history[n]
         IN  IF IsFour(v)
             THEN engineUpdate(v, before, g.engine, entry.emotion, entry.offer)
             ELSE engineUpdate3(CONFIG(v), W_SELF, before, entry.offer, entry.emotion)

\* g is a state between two handlers: the posterior is normalised and is the
\* one its history leads to, the round counts the history, and UMAX is the
\* complete table for the weights of the game
IsCompleteState(v, W_SELF, g) ==
    /\ g.round = Len(g.history)
    /\ StoreIsNumeric(v, g)
    /\ PosteriorMass(v, g) = <<1, 1>>
    /\ IF IsFour(v)
       THEN /\ g.paramSpace = ReplayTo(v, W_SELF, g, Len(g.history))
            /\ g.engine.wSelf = g.wSelf
            /\ g.engine.UMAX = precomputeUMAX(g.paramSpace, g.Q, g.wSelf, g.candX)
       ELSE g.engine.paramSpace = ReplayTo(v, W_SELF, g, Len(g.history))

\* C23: rebuilds and updates are atomic to every caller: whatever applyOffer,
\* getEstimates or a marginal getter reads is a complete state before or
\* after a reset, an updateWSelf or an update, never a UMAX table of other
\* weights or of another episode's posterior, and never an unnormalised
\* posterior.
C23_ReadsSeeCompleteStates ==
    lastResult.op = "read" =>
        IsCompleteState(variant, lastResult.W_SELF, lastResult.seen)

\* a read between two handlers that ran statement by statement: after an
\* applyOffer of the three-issue page, resp. after an updateWSelf that changed
\* the weights of a four-issue game
C23_Witness ==
    /\ lastResult.op = "read"
    /\ CallStackEmpty(running)
    /\ lastResult.seen = game
    /\ IF IsFour(variant)
       THEN game.wSelf # CONFIG(variant).W_SELF /\ game.round = 0
       ELSE game.round = MaxRounds

\* ---------------------------------------------------------------------------
\* C24
\* ---------------------------------------------------------------------------

\* what an episode is built from: the item counts, the proposer weights, the
\* two grids, the candidate offers, the UMAX table and the true parameters
EpisodeFrame(v, W_SELF, g) ==
    IF IsFour(v)
    THEN [ Q         |-> g.Q,
           wSelf     |-> g.wSelf,
           thetaGrid |-> g.thetaGrid,
           wGrid     |-> g.wGrid,
           candX     |-> g.candX,
           engine    |-> g.engine,
           trueTheta |-> g.trueTheta,
           trueW     |-> g.trueW ]
    ELSE [ Q         |-> CONFIG(v).Q,
           wSelf     |-> W_SELF,
           thetaGrid |-> g.engine.paramSpace.thetaValues,
           wGrid     |-> g.engine.paramSpace.wCombinations,
           trueTheta |-> g.trueTheta,
           trueW     |-> g.trueW ]

C24_Step ==
    lastResult'.op \notin {"construct", "reset", "updateWSelf"} =>
        EpisodeFrame(variant, CONFIG_W_SELF', game') =
            EpisodeFrame(variant, CONFIG_W_SELF, game)

\* C24: applyOffer changes only the posterior, the round counter and the
\* history: Q, wSelf, the theta grid, the w grid, the candidate offers, UMAX
\* and the true parameters are the same before and after every applyOffer,
\* hence across all applyOffer calls between two rebuilds.
C24_ApplyOfferKeepsEpisodeFrame == [][C24_Step]_vars

\* the last applyOffer of an episode has moved the posterior of a four-issue
\* game off the prior, and UMAX is still the table of the rebuild
C24_Witness ==
    /\ lastResult.op = "applyOffer"
    /\ IsFour(variant)
    /\ game.round = MaxRounds
    /\ game.paramSpace # NewParameterSpace(game.thetaGrid, game.wGrid)
    /\ game.engine.UMAX = precomputeUMAX(NewParameterSpace(game.thetaGrid, game.wGrid),
                                          game.Q, game.wSelf, game.candX)
    /\ \E i \in DOMAIN lastResult.offer : lastResult.offer[i] > 0

\* ---------------------------------------------------------------------------
\* C25
\* ---------------------------------------------------------------------------

\* an applyOffer returns 1 when the call before it was a construction, a
\* reset or an updateWSelf, and one more than the applyOffer before it
\* returned otherwise
C25_Step ==
    lastResult'.op = "applyOffer" =>
        lastResult'.round =
            IF lastResult.op = "applyOffer" THEN lastResult.round + 1 ELSE 1

\* C25: in every state between two operations the round counter equals the
\* number of history entries, and the n-th applyOffer since the last
\* construction, reset or updateWSelf returns round n.
C25_RoundCountsHistory ==
    /\ [](game.round = Len(game.history))
    /\ [](lastResult.op = "applyOffer" => lastResult.round = game.round)
    /\ [][C25_Step]_vars

\* the second applyOffer of an episode has returned round 2 and the history
\* holds its two entries
C25_Witness ==
    /\ lastResult.op = "applyOffer"
    /\ lastResult.round = 2
    /\ Len(game.history) = 2
    /\ game.round = 2

\* ---------------------------------------------------------------------------
\* A counterpart whose parameters are a point of the grid
\* ---------------------------------------------------------------------------

\* patterns whose theta and w are grid values (as all the shipped patterns are
\* on the shipped grids)
GridPatterns(v) ==
    IF v = "bayes3"
    THEN { [name |-> "basic2 x 45",   theta |-> 45,  w |-> <<-4, 4, -4>>],
           [name |-> "all like x 90", theta |-> 90,  w |-> <<4, 4, 4>>],
           [name |-> "mixed x -45",   theta |-> -45, w |-> <<4, 4, -4>>] }
    ELSE { [name |-> "uniform x 90",  theta |-> 90,  w |-> <<4, 4, 4, 4>>],
           [name |-> "contrast x 0",  theta |-> 0,   w |-> <<4, -4, 4, -4>>],
           [name |-> "uniform x -90", theta |-> -90, w |-> <<4, 4, 4, 4>>] }

\* Math.cos(Math.PI / 2) is the double 6.1e-17, not 0: at theta = +-90 degrees
\* the utility of an offer that meets the limit maxU - 7 in exact arithmetic
\* is, in doubles, a rounding residue below, on or above the limit
HalfPiResidues == {-1, 0, 1}

\* EmotionModel.sampleEmotion in doubles: the ladder sees the residue where
\* the exact utility is the limit at theta = +-90 degrees
sampleEmotionDouble(v, em, x, trueTheta, trueW, residue) ==
    LET uOther == UtilityOf(em.q, em.wSelf, trueTheta, trueW, x)
        maxU == MaxUtilityOver(em.q, em.wSelf, em.candX, trueTheta, trueW)
        limit == maxU - CONFIG(v).EMOTION_RANGE_MAX * TRIG_SCALE
    IN  IF Abs(trueTheta.piOver180) = 90 /\ uOther = limit
        THEN emotionLadder(v, uOther + residue, maxU)
        ELSE sampleEmotion(v, em, x, trueTheta, trueW)

InitTruth ==
    /\ variant \in VARIANTS
    /\ CONFIG_W_SELF = CONFIG(variant).W_SELF
    /\ \E p \in GridPatterns(variant), cw \in CustomWSelfInputs :
          game = construct(variant, CONFIG_W_SELF, cw, p)
    /\ lastResult = [op |-> "construct"]
    /\ peer = NoGame
    /\ gridCall = NoCall
    /\ running = Idle

\* game.applyOffer(x); the second four-issue script samples the emotion from
\* its EmotionModel
ApplyOfferTruth ==
    /\ game.round < MaxRounds
    /\ \E x \in PairOfferInputs(variant) :
          /\ \/ /\ variant = "bayes4em"
                /\ \E residue \in HalfPiResidues :
                      game' = applyOfferObserving4(variant, game, x,
                                  sampleEmotionDouble(variant, game.emotionModel, x,
                                                      game.trueTheta, game.trueW, residue))
             \/ /\ variant # "bayes4em"
                /\ game' = applyOffer(variant, CONFIG_W_SELF, game, x)
          /\ lastResult' = applyOfferResult(game', x)
    /\ UNCHANGED <<variant, CONFIG_W_SELF, peer, gridCall, running>>

\* game.reset()
ResetTruth ==
    /\ game.round > 0
    /\ \E p \in GridPatterns(variant) : game' = reset(variant, game, p)
    /\ lastResult' = [op |-> "reset"]
    /\ UNCHANGED <<variant, CONFIG_W_SELF, peer, gridCall, running>>

NextTruth == ApplyOfferTruth \/ ResetTruth

SpecTruth == InitTruth /\ [][NextTruth]_vars

\* ---------------------------------------------------------------------------
\* C26
\* ---------------------------------------------------------------------------

\* the hypotheses of the grid that are the true parameters of g
TrueHypotheses(v, g) ==
    IF IsFour(v)
    THEN {h \in Hypotheses(v, g) : /\ g.paramSpace.thetaValues[h[1]] = g.trueTheta
                                   /\ g.paramSpace.wGrid[h[2]] = g.trueW}
    ELSE {h \in Hypotheses(v, g) : h[1] = g.trueTheta /\ h[2] = g.trueW}

\* C26: when the true parameters are a grid point, that hypothesis receives
\* LIKELIHOOD_MATCH in every round, so after any sequence of applyOffer calls
\* its posterior mass is at least the mass of every other hypothesis.
C26_TruthHoldsLargestMass ==
    \A t \in TrueHypotheses(variant, game) :
        \A h \in Hypotheses(variant, game) :
            ~RatLess(Mass(variant, game, t), Mass(variant, game, h))

\* the same for the first four-issue script and the three-issue script, whose
\* true emotion comes from the function that predicts
TruthHoldsLargestMassUnlessSampled ==
    variant # "bayes4em" => C26_TruthHoldsLargestMass

\* the truth is on the grid and its mass has grown over two rounds
TruthOnGridAfterTwoRounds ==
    /\ variant # "bayes4em"
    /\ game.round = MaxRounds
    /\ \E t \in TrueHypotheses(variant, game) :
          RatLess(Rat(1, Cardinality(Hypotheses(variant, game))), Mass(variant, game, t))

\* ---------------------------------------------------------------------------
\* C27
\* ---------------------------------------------------------------------------

\* the pattern g currently hides
CurrentPattern(v, g) ==
    [ name  |-> g.patternName,
      theta |-> IF IsFour(v) THEN g.trueThetaDeg ELSE g.trueTheta,
      w     |-> g.trueW ]

\* g after applyOffer(offers[1]), ..., applyOffer(offers[n])
RECURSIVE ApplyOffersInOrder(_, _, _, _, _)
ApplyOffersInOrder(v, W_SELF, g, offers, n) ==
    IF n = 0 THEN g
    ELSE applyOffer(v, W_SELF, ApplyOffersInOrder(v, W_SELF, g, offers, n - 1), offers[n])

\* the posterior of g had the offers of its history been applied in the
\* order perm after the reset that started the episode
PosteriorInOrder(v, W_SELF, g, perm) ==
    LET n == Len(g.history)
        offers == [i \in 1..n |-> g.history[perm[i]].offer]
        start == reset(v, g, CurrentPattern(v, g))
    IN  PosteriorOf(v, ApplyOffersInOrder(v, W_SELF, start, offers, n))

\* C27: the posterior depends only on the multiset of offers applied since
\* the last reset: for fixed true parameters, applying the same offers in any
\* other order (x2 then x1 for x1 then x2) yields the same posterior.
C27_PosteriorIgnoresOfferOrder ==
    \A perm \in Permutations(1..Len(game.history)) :
        PosteriorInOrder(variant, CONFIG_W_SELF, game, perm) = PosteriorOf(variant, game)

\* two different offers were applied and drew different emotions; the
\* posterior has left the prior
C27_Witness ==
    /\ Len(game.history) = 2
    /\ game.history[1].offer # game.history[2].offer
    /\ game.history[1].emotion # game.history[2].emotion
    /\ ~IsUniform(variant, game)

\* ---------------------------------------------------------------------------
\* C28
\* ---------------------------------------------------------------------------

\* C28: in the three-issue engine the predicted emotion depends on theta only
\* through cos(theta), so after any sequence of updates the posterior mass of
\* (theta, w) equals the mass of (-theta, w) at every grid point; hence the
\* theta marginal is symmetric about 0 and thetaMAP is never positive.
C28_PosteriorSymmetricInTheta ==
    variant = "bayes3" =>
        LET ps == game.engine.paramSpace
            marginal == getMarginalTheta3(ps)
            found == getThetaMAP(ps)
        IN  /\ StoreIsNumeric(variant, game)
            /\ \A h \in Hypotheses(variant, game) :
                  /\ key(-h[1], h[2]) \in Hypotheses(variant, game)
                  /\ Mass(variant, game, h) = Mass(variant, game, key(-h[1], h[2]))
            /\ \A theta \in SeqRange(ps.thetaValues) : marginal[theta] = marginal[-theta]
            /\ ~found.isNull
            /\ found.value <= 0

\* the hidden theta is positive, the updates have moved the posterior, and
\* thetaMAP is the negative angle that mirrors a positive one of equal mass
C28_Witness ==
    /\ variant = "bayes3"
    /\ game.round = MaxRounds
    /\ game.trueTheta > 0
    /\ ~IsUniform(variant, game)
    /\ LET ps == game.engine.paramSpace
           found == getThetaMAP(ps)
       IN  /\ found.value < 0
           /\ getMarginalTheta3(ps)[-found.value] = found.maxProb

\* ---------------------------------------------------------------------------
\* The page: New Game, Apply W_SELF, Apply
\* ---------------------------------------------------------------------------

\* initGame(), at page load and on the New Game button:
\* game = new NegotiationGame()
InitGame ==
    /\ \E p \in PatternsOf(variant) : game' = construct(variant, CONFIG_W_SELF, <<>>, p)
    /\ lastResult' = [op |-> "construct"]
    /\ UNCHANGED <<variant, CONFIG_W_SELF, peer, gridCall, running>>

\* applyWSelf(): game.updateWSelf(getCurrentWSelf())
ApplyWSelf == UpdateWSelf

\* the Apply button: game.applyOffer(x) with the offer of the sliders
ApplyButton == ApplyOfferFrom(PairOfferInputs(variant))

NextPage == InitGame \/ ApplyWSelf \/ ApplyButton

SpecPage == Init /\ [][NextPage]_vars

\* ---------------------------------------------------------------------------
\* C29
\* ---------------------------------------------------------------------------

\* the game as new NegotiationGame(w) builds it with the pattern g hides
BuiltWith(v, w, g) == construct(v, w, w, CurrentPattern(v, g))

\* the weights of g, its UMAX table and the weights its emotion model and
\* its engine compute with are those of a game built with w
UsesWeights(v, w, g) ==
    IsFour(v) =>
        /\ g.wSelf = w
        /\ g.engine = BuiltWith(v, w, g).engine
        /\ g.emotionModel = BuiltWith(v, w, g).emotionModel

C29_Step ==
    /\ lastResult'.op = "updateWSelf" => CONFIG_W_SELF' = lastResult'.newWSelf
    /\ lastResult'.op # "updateWSelf" => CONFIG_W_SELF' = CONFIG_W_SELF
    /\ lastResult'.op = "applyOffer" =>
          lastResult'.emotion =
              TrueEmotionWith(variant, CONFIG_W_SELF, game, lastResult'.offer)

\* C29: the proposer weights set by updateWSelf persist across a New Game:
\* CONFIG.W_SELF holds the weights of the last updateWSelf(w), a game
\* constructed afterwards without arguments uses them for UMAX, for the
\* predictions and for the true emotion, and in every state of the page the
\* wSelf of the game equals CONFIG.W_SELF.
C29_WeightsPersistAcrossNewGame ==
    /\ [] UsesWeights(variant, CONFIG_W_SELF, game)
    /\ [][C29_Step]_vars

\* a New Game after an updateWSelf that changed the weights: the new game of
\* a four-issue page holds them
C29_Witness ==
    /\ lastResult.op = "construct"
    /\ IsFour(variant)
    /\ CONFIG_W_SELF # CONFIG(variant).W_SELF
    /\ game.wSelf = CONFIG_W_SELF
    /\ game.round = 0

\* ---------------------------------------------------------------------------
\* C30
\* ---------------------------------------------------------------------------

\* for hypothesis h of the engine of g: the utility and the predicted emotion
\* of every candidate offer
UtilityAndLabel(v, g, h) ==
    { << UtilityOf(g.engine.Q, g.engine.wSelf,
                   g.paramSpace.thetaValues[h[1]], g.paramSpace.wGrid[h[2]], x),
         predictEmotion(v, g.paramSpace, g.engine, h[1], h[2], x) >> :
      x \in SeqRange(g.candX) }

\* C30: under the max-anchored scheme an offer whose utility attains UMAX of
\* a hypothesis is labelled 7 (EMOTION_RANGE_MAX) for it, and for a fixed
\* hypothesis the label is non-decreasing in the utility.
C30_MaxIsJoySevenAndLabelMonotone ==
    IsFour(variant) =>
        \A h \in Hypotheses(variant, game) :
            LET pairs == UtilityAndLabel(variant, game, h)
                maxU == game.engine.UMAX[h[1]][h[2]]
            IN  /\ \E p \in pairs : p[1] = maxU
                /\ \A p \in pairs :
                      p[1] = maxU => p[2] = CONFIG(variant).EMOTION_RANGE_MAX
                /\ \A p, q \in pairs : p[1] <= q[1] => p[2] <= q[2]

\* the weights of the page were changed, and for one hypothesis the candidate
\* offers span the ladder: one is labelled ANGER, one a JOY class below 7,
\* and one attains UMAX
C30_Witness ==
    /\ IsFour(variant)
    /\ CONFIG_W_SELF # CONFIG(variant).W_SELF
    /\ \E h \in Hypotheses(variant, game) :
          LET pairs == UtilityAndLabel(variant, game, h)
          IN  /\ \E p \in pairs : p[2] = -1
              /\ \E p \in pairs : p[2] \in 1..6
              /\ \E p \in pairs : p[1] = game.engine.UMAX[h[1]][h[2]] /\ p[2] = 7

====
